---- MODULE Spec2Model ----
(***************************************************************************)
(* The batching, flushing and retry subsystem of the Langfuse Go SDK:      *)
(* Client (enqueue / Flush / Close), Batcher (Add / Flush /                *)
(* handleFlushError / background flush loop), the error classifier and the *)
(* Metrics recorder, for an enabled client (Config.Enabled = true).        *)
(*                                                                         *)
(* Every goroutine is a thread with a program counter.  The callers use    *)
(* the client through Client.enqueue, Client.Flush and Client.Close; the   *)
(* background goroutine runs the loop of Batcher.Start.  A step is one     *)
(* atomic piece of a method: a critical section of Batcher.mu from Lock to *)
(* Unlock (taken when the mutex is free), the acquisition of Client.mu,    *)
(* which enqueue holds until it returns, an update of the atomic counters, *)
(* the completion of a network send, one iteration of a loop.              *)
(***************************************************************************)
EXTENDS Integers, Sequences, FiniteSets, TLC

VARIABLES
    config,        \* Config: FlushAt, MaxQueueSize, MetricsEnabled
    queue,         \* Batcher.queue: sequence of events (event ids)
    queueMu,       \* Batcher.mu: the holder, or None
    clientMu,      \* Client.mu: the holder, or None
    closed,        \* Client.closed
    done,          \* Batcher.done has been closed
    metrics,       \* Metrics: the atomic counters
    failedEvents,  \* Metrics.failedEvents
    pc,            \* position of every goroutine
    op,            \* the outermost call a goroutine is executing
    ev,            \* the argument of the call: the event of Add / enqueue, the
                   \* receiver of a MetricsSnapshot method
    events,        \* the local snapshot `events` of a running Flush
    resp,          \* the local `resp` of a running Flush
    err,           \* the local `err` of a running Flush
    idx,           \* position of the range loop in handleFlushError
    result,        \* the value a call has returned to its caller
    nextId,        \* next fresh event id (generateID)
    flushStarts,   \* number of Flush calls started by the ticker or by Client.Flush
    hist           \* history of the run (what was accepted, what was sent), kept
                   \* only by the specifications that start with hist.recording

vars == <<config, queue, queueMu, clientMu, closed, done, metrics, failedEvents,
          pc, op, ev, events, resp, err, idx, result, nextId, flushStarts, hist>>

(***************************************************************************)
(* Bounds of the model.                                                    *)
(***************************************************************************)
MaxEvents == 2
MaxFlushes == 1
MaxCount == 2

Callers == {"c1", "c2"}
BG == "bg"
Threads == Callers \cup {BG}
None == "none"

Min(a, b) == IF a < b THEN a ELSE b

(***************************************************************************)
(* Errors.                                                                 *)
(***************************************************************************)
Nil == [type |-> "nil"]

QueueFullError(maxSize) == [type |-> "QueueFullError", MaxSize |-> maxSize]

ClosedError == [type |-> "error", Message |-> "client is closed"]

\* fmt.Errorf results of sendIngestion: not a *LangfuseError
PlainError(msg) == [type |-> "error", Message |-> msg]

StatusTooManyRequests == 429
StatusOK == 200
StatusMultiStatus == 207

NewHTTPErrorRateLimitFatal(statusCode) ==
    [type |-> "LangfuseError",
     Code |-> IF statusCode >= 500 /\ statusCode < 600 THEN "SERVER_ERROR"
              ELSE IF statusCode >= 400 /\ statusCode < 500 THEN "CLIENT_ERROR"
              ELSE "HTTP_" \o ToString(statusCode),
     StatusCode |-> statusCode,
     retryable |-> (statusCode >= 500 /\ statusCode < 600)]

NewHTTPError(statusCode) ==
    [type |-> "LangfuseError",
     Code |-> IF statusCode >= 500 /\ statusCode < 600 THEN "SERVER_ERROR"
              ELSE IF statusCode = StatusTooManyRequests THEN "RATE_LIMITED"
              ELSE IF statusCode >= 400 /\ statusCode < 500 THEN "CLIENT_ERROR"
              ELSE "HTTP_" \o ToString(statusCode),
     StatusCode |-> statusCode,
     retryable |-> (statusCode = StatusTooManyRequests
                    \/ (statusCode >= 500 /\ statusCode < 600))]

NewNetworkError ==
    [type |-> "LangfuseError", Code |-> "NETWORK_ERROR", StatusCode |-> 0,
     retryable |-> TRUE]

\* the type assertion and IsRetryable() test of handleFlushError
IsRetryable(e) == e.type = "LangfuseError" /\ e.retryable

(***************************************************************************)
(* Transport.  What the wire can answer to a batch of n events, and what   *)
(* sendIngestion makes of it.                                              *)
(***************************************************************************)
Statuses == {200, 207, 400, 503}

NoResp == [Successes |-> 0, Errors |-> 0]

Wire(n) ==
    {[kind |-> "network", status |-> 0, parses |-> FALSE, Successes |-> 0, Errors |-> 0]}
    \cup {[kind |-> "http", status |-> s, parses |-> TRUE,
            Successes |-> IF s = StatusMultiStatus THEN n - 1 ELSE n,
            Errors |-> IF s = StatusMultiStatus THEN 1 ELSE 0] : s \in Statuses}

\* The answers of a server that is not bound to the statuses of Statuses:
\* informational, every class from 2xx to 5xx with its limits, and beyond.
\* The body of a 200 or 207 does or does not parse; the body of any other
\* status is error text.  kind "network" with a status is a response whose
\* status line arrived and whose body could not be read (io.ReadAll fails).
StatusCodes ==
    {100, 200, 201, 204, 207, 299, 300, 302, 399, 400, 404, 428, 429, 430, 499,
     500, 503, 599, 600}

WireAny(n) ==
    {[kind |-> "network", status |-> s, parses |-> FALSE, Successes |-> 0, Errors |-> 0] :
        s \in {0, StatusOK}}
    \cup {[kind |-> "http", status |-> s, parses |-> p,
            Successes |-> IF s = StatusMultiStatus THEN n - 1 ELSE n,
            Errors |-> IF s = StatusMultiStatus THEN 1 ELSE 0] :
                s \in {StatusOK, StatusMultiStatus}, p \in BOOLEAN}
    \cup {[kind |-> "http", status |-> s, parses |-> FALSE, Successes |-> 0, Errors |-> 0] :
                s \in StatusCodes \ {StatusOK, StatusMultiStatus}}

\* httpClient.Do or io.ReadAll returns because the deadline has passed: the
\* context of an explicit Flush, the 5 s context of Client.Close, or
\* Config.Timeout of the http.Client
DeadlineExceeded ==
    [kind |-> "deadline", status |-> 0, parses |-> FALSE, Successes |-> 0, Errors |-> 0]

\* trace.go lines 431-439: json.Marshal or http.NewRequestWithContext fails
Unbuilt ==
    [kind |-> "unbuilt", status |-> 0, parses |-> FALSE, Successes |-> 0, Errors |-> 0]

\* a send that is accepted, one that fails on the network, one that runs out
\* of time, and a 200 or 207 response whose body does not parse
WireFailing(n) ==
    {w \in Wire(n) : w.kind = "network" \/ w.status = StatusOK}
    \cup {DeadlineExceeded}
    \cup {[kind |-> "http", status |-> s, parses |-> FALSE, Successes |-> 0, Errors |-> 0] :
            s \in {StatusOK, StatusMultiStatus}}

sendIngestionAny2xx(w) ==
    IF w.kind \in {"network", "deadline"}
    THEN [resp |-> NoResp, err |-> NewNetworkError]
    ELSE IF w.status < 200 \/ w.status > 299
    THEN [resp |-> NoResp, err |-> NewHTTPError(w.status)]
    ELSE IF ~w.parses
    THEN [resp |-> NoResp, err |-> PlainError("failed to unmarshal response")]
    ELSE [resp |-> [Successes |-> w.Successes, Errors |-> w.Errors], err |-> Nil]

\* a transport that reports an exceeded deadline as a cancellation of its
\* own, which is no LangfuseError
sendIngestionDeadlineDistinct(w) ==
    IF w.kind = "deadline"
    THEN [resp |-> NoResp, err |-> PlainError("context deadline exceeded")]
    ELSE IF w.kind = "network"
    THEN [resp |-> NoResp, err |-> NewNetworkError]
    ELSE IF w.status # StatusOK /\ w.status # StatusMultiStatus
    THEN [resp |-> NoResp, err |-> NewHTTPError(w.status)]
    ELSE IF ~w.parses
    THEN [resp |-> NoResp, err |-> PlainError("failed to unmarshal response")]
    ELSE [resp |-> [Successes |-> w.Successes, Errors |-> w.Errors], err |-> Nil]

\* trace.go lines 452-485, from the return of httpClient.Do.  Do and
\* io.ReadAll fail with an error of the net/http package when the connection
\* fails (kind "network") and when the deadline of the request's context or
\* the timeout of the http.Client passes (kind "deadline").
sendIngestion(w) ==
    IF w.kind \in {"network", "deadline"}
    THEN [resp |-> NoResp, err |-> NewNetworkError]
    ELSE IF w.status # StatusOK /\ w.status # StatusMultiStatus
    THEN [resp |-> NoResp, err |-> NewHTTPError(w.status)]
    ELSE IF ~w.parses
    THEN [resp |-> NoResp, err |-> PlainError("failed to unmarshal response")]
    ELSE [resp |-> [Successes |-> w.Successes, Errors |-> w.Errors], err |-> Nil]

(***************************************************************************)
(* Metrics.                                                                *)
(***************************************************************************)
FailedCap == 1000

ZeroMetrics ==
    [eventsEnqueued |-> 0, eventsFlushed |-> 0, eventsSucceeded |-> 0,
     eventsFailed |-> 0, eventsDropped |-> 0, flushCount |-> 0, retryCount |-> 0]

RecordEnqueued(m, count) == [m EXCEPT !.eventsEnqueued = @ + count]

RecordFlush(m, success, failed) ==
    [m EXCEPT !.eventsFlushed = @ + success + failed,
              !.eventsSucceeded = @ + success,
              !.eventsFailed = @ + failed,
              !.flushCount = @ + 1]

RecordDropped(m, count) == [m EXCEPT !.eventsDropped = @ + count]

RecordRetry(m) == [m EXCEPT !.retryCount = @ + 1]

\* failedEvents is kept as the number `old` of records that were made before
\* the run that is modelled (the head of the slice) and the records `recent`
\* made during it (the tail of the slice).
FailedLen(f) == f.old + Len(f.recent)

RecordFailedEventUncapped(f, event, e, attempt) ==
    [f EXCEPT !.recent = Append(@, [Event |-> event, Error |-> e, Attempt |-> attempt])]

\* a buffer that throws the new record away when it is full
RecordFailedEventKeepOldest(f, event, e, attempt) ==
    IF FailedLen(f) >= FailedCap
    THEN f
    ELSE [f EXCEPT !.recent = Append(@, [Event |-> event, Error |-> e, Attempt |-> attempt])]

RecordFailedEvent(f, event, e, attempt) ==
    LET appended == [f EXCEPT !.recent = Append(@, [Event |-> event, Error |-> e, Attempt |-> attempt])]
    IN  IF FailedLen(appended) > FailedCap
        THEN IF appended.old > 0
             THEN [appended EXCEPT !.old = @ - 1]
             ELSE [appended EXCEPT !.recent = Tail(@)]
        ELSE appended

\* GetFailedEvents: a copy of the buffer made under Metrics.mu
GetFailedEvents == failedEvents

\* MetricsSnapshot.FailedEventCount as GetSnapshot reads it
FailedEventCount == FailedLen(failedEvents)

(***************************************************************************)
(* History of a run.  The program keeps none of it: it is what an observer *)
(* of the run writes down, and a specification writes down only the parts  *)
(* that its initial state names in hist.recording.                         *)
(*   accepted  the events Batcher.Add has appended to the queue, and in    *)
(*             order the same events in the order of their appends         *)
(*   attempts  for every event, the number of transport sends that were    *)
(*             started with the event in their batch                       *)
(*   answer    for every goroutine, what the wire answered to its last     *)
(*             send                                                        *)
(*   atClose   for every caller inside Client.Close, the events that had   *)
(*             been accepted when it called Close                          *)
(*   closer    the caller whose Close found the client open                *)
(*   delivered, dropped   (part "fate") the events of the batches whose    *)
(*             Flush has returned after an accepted send, and after a      *)
(*             failure that is not retried                                 *)
(***************************************************************************)
NoAnswer == [kind |-> "none", status |-> 0]

NoHistory ==
    [recording |-> {},
     accepted |-> {},
     order |-> <<>>,
     answer |-> [t \in Threads |-> NoAnswer],
     attempts |-> [e \in 1..MaxEvents |-> 0],
     atClose |-> [t \in Callers |-> {}],
     closer |-> None,
     delivered |-> {},
     dropped |-> {}]

Recorded(part, h) == IF part \in hist.recording THEN h ELSE hist

\* batcher.go line 84: the event is appended to the queue
HistAccepted(event) ==
    Recorded("accepted", [hist EXCEPT !.accepted = @ \cup {event},
                                      !.order = Append(@, event)])

\* trace.go line 452: httpClient.Do is called with the batch
HistSendStarted(batch) ==
    Recorded("attempts", [hist EXCEPT !.attempts =
                  [e \in DOMAIN @ |-> IF \E i \in 1..Len(batch) : batch[i] = e
                                       THEN @[e] + 1 ELSE @[e]]])

\* trace.go lines 452-458: httpClient.Do and io.ReadAll have returned
HistAnswered(t, w) == Recorded("answer", [hist EXCEPT !.answer[t] = w])

\* Batcher.Flush has returned: its batch is delivered (batcher.go line 154),
\* dropped (line 187) or back in the queue (line 174)
HistFlushReturned(t) ==
    LET batch == {events[t][i] : i \in 1..Len(events[t])}
        answered == Recorded("answer", [hist EXCEPT !.answer[t] = NoAnswer])
    IN  IF "fate" \notin hist.recording \/ IsRetryable(err[t])
        THEN answered
        ELSE IF err[t] = Nil
        THEN [answered EXCEPT !.delivered = @ \cup batch]
        ELSE [answered EXCEPT !.dropped = @ \cup batch]

\* trace.go line 517: Client.Close is entered
HistCloseCalled(t) == Recorded("close", [hist EXCEPT !.atClose[t] = hist.accepted])

\* trace.go line 523: this call sets closed
HistClosedBy(t) == Recorded("close", [hist EXCEPT !.closer = t])

\* the call has returned
HistReturned(t) == Recorded("close", [hist EXCEPT !.atClose[t] = {}])

(***************************************************************************)
(* Initial state: NewClient with a valid, enabled configuration; the       *)
(* background loop has been started.                                       *)
(***************************************************************************)
\* Configurations Validate accepts, as <<FlushAt, MaxQueueSize>>: FlushAt
\* below, above and equal to MaxQueueSize.
Thresholds == {<<1, 2>>, <<2, 1>>, <<2, 2>>}

\* Config.MaxRetryAttempts: any int passes Validate
RetryLimits == {1}

Configs ==
    {[FlushAt |-> th[1], MaxQueueSize |-> th[2], MetricsEnabled |-> m,
      MaxRetryAttempts |-> r] :
        th \in Thresholds, m \in BOOLEAN, r \in RetryLimits}

InitWith(cfg, old) ==
    /\ config = cfg
    /\ queue = <<>>
    /\ queueMu = None
    /\ clientMu = None
    /\ closed = FALSE
    /\ done = FALSE
    /\ metrics = [ZeroMetrics EXCEPT !.eventsEnqueued = old]
    /\ failedEvents = [old |-> old, recent |-> <<>>]
    /\ pc = [t \in Threads |-> IF t = BG THEN "bg_select" ELSE "idle"]
    /\ op = [t \in Threads |-> None]
    /\ ev = [t \in Threads |-> 0]
    /\ events = [t \in Threads |-> <<>>]
    /\ resp = [t \in Threads |-> NoResp]
    /\ err = [t \in Threads |-> Nil]
    /\ idx = [t \in Threads |-> 0]
    /\ result = [t \in Threads |-> Nil]
    /\ nextId = 1
    /\ flushStarts = 0

Init == hist = NoHistory /\ \E cfg \in Configs : InitWith(cfg, 0)

\* the same initial states, observed: the history is recorded
InitTracked ==
    /\ hist = [NoHistory EXCEPT !.recording = {"accepted", "attempts", "close"}]
    /\ \E cfg \in Configs : InitWith(cfg, 0)

\* A client with metrics enabled that has been running for a while: FailedCap - 1
\* events were enqueued and lost to non-retryable failures, one short of the
\* capacity of the failed-event buffer.
InitAged ==
    /\ hist = NoHistory
    /\ \E cfg \in Configs : cfg.MetricsEnabled /\ InitWith(cfg, FailedCap - 1)

(***************************************************************************)
(* Returning from Batcher.Flush with error e: Add absorbs it and goes on   *)
(* to re-lock, the background loop absorbs it and selects again,           *)
(* Client.Flush and Close hand it to their caller.                         *)
(***************************************************************************)
FlushReturnPropagating(t, e) ==
    /\ pc' = [pc EXCEPT ![t] = CASE op[t] = "timer" -> "bg_select"
                                 [] OTHER -> "ret"]
    /\ result' = [result EXCEPT ![t] = e]
    /\ hist' = HistFlushReturned(t)
    /\ op' = [op EXCEPT ![t] = IF op[t] = "timer" THEN None ELSE @]
    /\ events' = [events EXCEPT ![t] = <<>>]
    /\ resp' = [resp EXCEPT ![t] = NoResp]
    /\ err' = [err EXCEPT ![t] = Nil]
    /\ idx' = [idx EXCEPT ![t] = 0]

\* a background loop that gives up after a failed flush
FlushReturnStoppingLoop(t, e) ==
    /\ pc' = [pc EXCEPT ![t] = CASE op[t] \in {"enqueue", "add"} -> "add_relock"
                                 [] op[t] = "timer" -> IF e = Nil THEN "bg_select"
                                                                  ELSE "bg_stopped"
                                 [] OTHER -> "ret"]
    /\ result' = [result EXCEPT ![t] = IF op[t] \in {"flush", "close"} THEN e ELSE Nil]
    /\ hist' = HistFlushReturned(t)
    /\ op' = [op EXCEPT ![t] = IF op[t] = "timer" THEN None ELSE @]
    /\ events' = [events EXCEPT ![t] = <<>>]
    /\ resp' = [resp EXCEPT ![t] = NoResp]
    /\ err' = [err EXCEPT ![t] = Nil]
    /\ idx' = [idx EXCEPT ![t] = 0]

\* a Flush that reports success whatever its send answered
FlushReturnSwallowing(t, e) ==
    /\ pc' = [pc EXCEPT ![t] = CASE op[t] \in {"enqueue", "add"} -> "add_relock"
                                 [] op[t] = "timer" -> "bg_select"
                                 [] OTHER -> "ret"]
    /\ result' = [result EXCEPT ![t] = Nil]
    /\ hist' = HistFlushReturned(t)
    /\ op' = [op EXCEPT ![t] = IF op[t] = "timer" THEN None ELSE @]
    /\ events' = [events EXCEPT ![t] = <<>>]
    /\ resp' = [resp EXCEPT ![t] = NoResp]
    /\ err' = [err EXCEPT ![t] = Nil]
    /\ idx' = [idx EXCEPT ![t] = 0]

FlushReturn(t, e) ==
    /\ pc' = [pc EXCEPT ![t] = CASE op[t] \in {"enqueue", "add"} -> "add_relock"
                                 [] op[t] = "timer" -> "bg_select"
                                 [] OTHER -> "ret"]
    /\ result' = [result EXCEPT ![t] = IF op[t] \in {"flush", "close"} THEN e ELSE Nil]
    /\ hist' = HistFlushReturned(t)
    /\ op' = [op EXCEPT ![t] = IF op[t] = "timer" THEN None ELSE @]
    /\ events' = [events EXCEPT ![t] = <<>>]
    /\ resp' = [resp EXCEPT ![t] = NoResp]
    /\ err' = [err EXCEPT ![t] = Nil]
    /\ idx' = [idx EXCEPT ![t] = 0]

\* Returning from Batcher.Add with value e; the deferred c.mu.Unlock of
\* Client.enqueue runs when Add was called through it.
AddReturn(t, e) ==
    /\ pc' = [pc EXCEPT ![t] = "ret"]
    /\ result' = [result EXCEPT ![t] = e]
    /\ clientMu' = IF op[t] = "enqueue" THEN None ELSE clientMu

\* an Add that counts the call whatever the configuration says
AddEnterUnguarded == metrics' = RecordEnqueued(metrics, 1)

\* lines 57-60 of Batcher.Add, before the queue mutex is taken
AddEnter ==
    metrics' = IF config.MetricsEnabled THEN RecordEnqueued(metrics, 1) ELSE metrics

(***************************************************************************)
(* Client.enqueue                                                          *)
(***************************************************************************)
CallEnqueue(t) ==
    /\ pc[t] = "idle"
    /\ nextId <= MaxEvents
    /\ pc' = [pc EXCEPT ![t] = "enq_lock"]
    /\ op' = [op EXCEPT ![t] = "enqueue"]
    /\ ev' = [ev EXCEPT ![t] = nextId]
    /\ nextId' = nextId + 1
    /\ UNCHANGED <<config, hist, queue, queueMu, clientMu, closed, done, metrics, failedEvents,
                   events, resp, err, idx, result, flushStarts>>

EnqueueLockUnchecked(t) ==
    /\ pc[t] = "enq_lock"
    /\ clientMu = None
    /\ pc' = [pc EXCEPT ![t] = "add_lock"]
    /\ clientMu' = t
    /\ AddEnter
    /\ UNCHANGED <<config, hist, queue, queueMu, closed, done, failedEvents,
                   op, ev, events, resp, err, idx, result, nextId, flushStarts>>

\* lines 489-496: c.mu.Lock, the closed test, the call of Batcher.Add
EnqueueLock(t) ==
    /\ pc[t] = "enq_lock"
    /\ clientMu = None
    /\ IF closed
       THEN /\ pc' = [pc EXCEPT ![t] = "ret"]
            /\ result' = [result EXCEPT ![t] = ClosedError]
            /\ UNCHANGED <<clientMu, metrics>>
       ELSE /\ pc' = [pc EXCEPT ![t] = "add_lock"]
            /\ clientMu' = t
            /\ AddEnter
            /\ UNCHANGED result
    /\ UNCHANGED <<config, hist, queue, queueMu, closed, done, failedEvents,
                   op, ev, events, resp, err, idx, nextId, flushStarts>>

(***************************************************************************)
(* Batcher.Add                                                             *)
(***************************************************************************)
QueueIsFullStrict(q) == Len(q) > config.MaxQueueSize

\* line 66
QueueIsFull(q) == Len(q) >= config.MaxQueueSize

ReachedFlushAtStrict(q) == Len(q) > config.FlushAt

\* line 87
ReachedFlushAt(q) == Len(q) >= config.FlushAt

\* an Add that returns QueueFullError without releasing the queue mutex
AddRejectKeepingLock(t) ==
    /\ metrics' = IF config.MetricsEnabled THEN RecordDropped(metrics, 1) ELSE metrics
    /\ queueMu' = t
    /\ AddReturn(t, QueueFullError(config.MaxQueueSize))
    /\ UNCHANGED <<queue, hist>>

AddReject(t) ==
    /\ metrics' = IF config.MetricsEnabled THEN RecordDropped(metrics, 1) ELSE metrics
    /\ queueMu' = None
    /\ AddReturn(t, QueueFullError(config.MaxQueueSize))
    /\ UNCHANGED <<queue, hist>>

\* an Add that returns at once and leaves the flushing to others
AddAcceptWithoutFlush(t) ==
    /\ queue' = Append(queue, ev[t])
    /\ hist' = HistAccepted(ev[t])
    /\ queueMu' = None
    /\ AddReturn(t, Nil)
    /\ UNCHANGED metrics

AddAccept(t) ==
    /\ queue' = Append(queue, ev[t])
    /\ hist' = HistAccepted(ev[t])
    /\ queueMu' = None
    /\ IF ReachedFlushAt(queue')
       THEN /\ pc' = [pc EXCEPT ![t] = "flush_lock"]
            /\ UNCHANGED <<result, clientMu>>
       ELSE AddReturn(t, Nil)
    /\ UNCHANGED metrics

\* lines 62-98: the critical section of Add, from Lock to the first Unlock
AddLocked(t) ==
    /\ pc[t] = "add_lock"
    /\ queueMu = None
    /\ IF QueueIsFull(queue) THEN AddReject(t) ELSE AddAccept(t)
    /\ UNCHANGED <<config, closed, done, failedEvents,
                   op, ev, events, resp, err, idx, nextId, flushStarts>>

AddRelock(t) ==
    /\ pc[t] = "add_relock"
    /\ queueMu = None
    /\ AddReturn(t, Nil)
    /\ UNCHANGED <<config, hist, queue, queueMu, closed, done, metrics, failedEvents,
                   op, ev, events, resp, err, idx, nextId, flushStarts>>

(***************************************************************************)
(* Client.Flush and Batcher.Flush                                          *)
(***************************************************************************)
CallFlush(t) ==
    /\ pc[t] = "idle"
    /\ flushStarts < MaxFlushes
    /\ flushStarts' = flushStarts + 1
    /\ pc' = [pc EXCEPT ![t] = "flush_lock"]
    /\ op' = [op EXCEPT ![t] = "flush"]
    /\ UNCHANGED <<config, hist, queue, queueMu, clientMu, closed, done, metrics, failedEvents,
                   ev, events, resp, err, idx, result, nextId>>

QueueIsEmptyUnchecked(q) == FALSE

\* line 105
QueueIsEmpty(q) == Len(q) = 0

TakeSnapshotNoClear(t) ==
    /\ events' = [events EXCEPT ![t] = queue]
    /\ queue' = queue
    /\ queueMu' = None
    /\ pc' = [pc EXCEPT ![t] = "send_start"]
    /\ UNCHANGED <<op, resp, err, idx, result, hist>>

TakeSnapshotLocked(t) ==
    /\ events' = [events EXCEPT ![t] = queue]
    /\ queue' = <<>>
    /\ queueMu' = t
    /\ pc' = [pc EXCEPT ![t] = "send_start"]
    /\ UNCHANGED <<op, resp, err, idx, result, hist>>

\* lines 111-115: copy the queue, clear it, unlock, go and send
TakeSnapshot(t) ==
    /\ events' = [events EXCEPT ![t] = queue]
    /\ queue' = <<>>
    /\ queueMu' = None
    /\ pc' = [pc EXCEPT ![t] = "send_start"]
    /\ UNCHANGED <<op, resp, err, idx, result, hist>>

\* lines 103-115: the critical section of Flush
FlushLocked(t) ==
    /\ pc[t] = "flush_lock"
    /\ queueMu = None
    /\ IF QueueIsEmpty(queue)
       THEN /\ queueMu' = None
            /\ FlushReturn(t, Nil)
            /\ UNCHANGED queue
       ELSE TakeSnapshot(t)
    /\ UNCHANGED <<config, clientMu, closed, done, metrics, failedEvents,
                   ev, nextId, flushStarts>>

\* line 122 and trace.go lines 423-452: sendIngestion builds the request and
\* hands it to the transport
SendStart(t) ==
    /\ pc[t] = "send_start"
    /\ pc' = [pc EXCEPT ![t] = "sending"]
    /\ hist' = HistSendStarted(events[t])
    /\ UNCHANGED <<config, queue, queueMu, clientMu, closed, done, metrics, failedEvents,
                   op, ev, events, resp, err, idx, result, nextId, flushStarts>>

\* line 122: sendIngestion returns what it makes of the answer w of the wire
Answered(t, w) ==
    /\ pc[t] = "sending"
    /\ resp' = [resp EXCEPT ![t] = sendIngestion(w).resp]
    /\ err' = [err EXCEPT ![t] = sendIngestion(w).err]
    /\ hist' = HistAnswered(t, w)
    /\ pc' = [pc EXCEPT ![t] = "sent"]
    /\ UNCHANGED <<config, queue, queueMu, clientMu, closed, done, metrics, failedEvents,
                   op, ev, events, idx, result, nextId, flushStarts>>

\* line 122: the send completes
SendDone(t) == \E w \in Wire(Len(events[t])) : Answered(t, w)

\* the same with deadlines and unparsable bodies
SendDoneFailing(t) == \E w \in WireFailing(Len(events[t])) : Answered(t, w)

\* trace.go lines 431-439 (line 122 of Flush): sendIngestion returns before
\* anything is handed to the transport, with the error of json.Marshal or of
\* http.NewRequestWithContext wrapped by fmt.Errorf
SendUnbuilt(t) ==
    /\ pc[t] = "send_start"
    /\ err' = [err EXCEPT ![t] = PlainError("failed to marshal request")]
    /\ hist' = HistAnswered(t, Unbuilt)
    /\ pc' = [pc EXCEPT ![t] = "sent"]
    /\ UNCHANGED <<config, queue, queueMu, clientMu, closed, done, metrics, failedEvents,
                   op, ev, events, resp, idx, result, nextId, flushStarts>>

\* the same against a server that can answer anything
SendDoneAny(t) == \E w \in WireAny(Len(events[t])) : Answered(t, w)

HandleFlushErrorPerEvent(t) ==
    IF IsRetryable(err[t])
    THEN /\ metrics' = IF config.MetricsEnabled
                       THEN [metrics EXCEPT !.retryCount = @ + Len(events[t])]
                       ELSE metrics
         /\ pc' = [pc EXCEPT ![t] = "requeue_lock"]
         /\ UNCHANGED <<op, events, resp, err, idx, result, hist>>
    ELSE IF config.MetricsEnabled
    THEN /\ idx' = [idx EXCEPT ![t] = 1]
         /\ pc' = [pc EXCEPT ![t] = "fail_record"]
         /\ UNCHANGED <<op, events, resp, err, result, metrics, hist>>
    ELSE /\ FlushReturn(t, err[t])
         /\ UNCHANGED metrics

\* a Flush that sends its snapshot again after a retryable failure
HandleFlushErrorResending(t) ==
    IF IsRetryable(err[t])
    THEN /\ metrics' = IF config.MetricsEnabled THEN RecordRetry(metrics) ELSE metrics
         /\ pc' = [pc EXCEPT ![t] = "send_start"]
         /\ UNCHANGED <<op, events, resp, err, idx, result, hist>>
    ELSE IF config.MetricsEnabled
    THEN /\ idx' = [idx EXCEPT ![t] = 1]
         /\ pc' = [pc EXCEPT ![t] = "fail_record"]
         /\ UNCHANGED <<op, events, resp, err, result, metrics, hist>>
    ELSE /\ FlushReturn(t, err[t])
         /\ UNCHANGED metrics

\* a handleFlushError that retries whatever is not a classified
\* non-retryable error
HandleFlushErrorRetryingUnclassified(t) ==
    IF IsRetryable(err[t]) \/ err[t].type # "LangfuseError"
    THEN /\ metrics' = IF config.MetricsEnabled THEN RecordRetry(metrics) ELSE metrics
         /\ pc' = [pc EXCEPT ![t] = "requeue_lock"]
         /\ UNCHANGED <<op, events, resp, err, idx, result, hist>>
    ELSE IF config.MetricsEnabled
    THEN /\ idx' = [idx EXCEPT ![t] = 1]
         /\ pc' = [pc EXCEPT ![t] = "fail_record"]
         /\ UNCHANGED <<op, events, resp, err, result, metrics, hist>>
    ELSE /\ FlushReturn(t, err[t])
         /\ UNCHANGED metrics

\* a handleFlushError that counts a dropped batch as a flush of failed events
HandleFlushErrorCountingFlush(t) ==
    IF IsRetryable(err[t])
    THEN /\ metrics' = IF config.MetricsEnabled THEN RecordRetry(metrics) ELSE metrics
         /\ pc' = [pc EXCEPT ![t] = "requeue_lock"]
         /\ UNCHANGED <<op, events, resp, err, idx, result, hist>>
    ELSE IF config.MetricsEnabled
    THEN /\ idx' = [idx EXCEPT ![t] = 1]
         /\ pc' = [pc EXCEPT ![t] = "fail_record"]
         /\ metrics' = RecordFlush(metrics, 0, Len(events[t]))
         /\ UNCHANGED <<op, events, resp, err, result, hist>>
    ELSE /\ FlushReturn(t, err[t])
         /\ UNCHANGED metrics

\* handleFlushError up to its first blocking point
HandleFlushError(t) ==
    IF IsRetryable(err[t])
    THEN /\ metrics' = IF config.MetricsEnabled THEN RecordRetry(metrics) ELSE metrics
         /\ pc' = [pc EXCEPT ![t] = "requeue_lock"]
         /\ UNCHANGED <<op, events, resp, err, idx, result, hist>>
    ELSE IF config.MetricsEnabled
    THEN /\ idx' = [idx EXCEPT ![t] = 1]
         /\ pc' = [pc EXCEPT ![t] = "fail_record"]
         /\ UNCHANGED <<op, events, resp, err, result, metrics, hist>>
    ELSE /\ FlushReturn(t, err[t])
         /\ UNCHANGED metrics

\* a Flush that puts its snapshot back when the response lists item errors
FlushSucceededRequeuingErrors(t) ==
    /\ metrics' = IF config.MetricsEnabled
                  THEN RecordFlush(metrics, resp[t].Successes, resp[t].Errors)
                  ELSE metrics
    /\ IF resp[t].Errors > 0
       THEN /\ pc' = [pc EXCEPT ![t] = "requeue_lock"]
            /\ UNCHANGED <<op, events, resp, err, idx, result, hist>>
       ELSE FlushReturn(t, Nil)

\* lines 131-154: the send was accepted by the transport
FlushSucceeded(t) ==
    /\ metrics' = IF config.MetricsEnabled
                  THEN RecordFlush(metrics, resp[t].Successes, resp[t].Errors)
                  ELSE metrics
    /\ FlushReturn(t, Nil)

\* lines 124-154
AfterSend(t) ==
    /\ pc[t] = "sent"
    /\ IF err[t] # Nil THEN HandleFlushError(t) ELSE FlushSucceeded(t)
    /\ UNCHANGED <<config, queue, queueMu, clientMu, closed, done, failedEvents,
                   ev, nextId, flushStarts>>

RequeuedAtBack(snapshot, q) == q \o snapshot

RequeuedNothing(snapshot, q) == q

RequeuedTwice(snapshot, q) == snapshot \o snapshot \o q

\* line 172
Requeued(snapshot, q) == snapshot \o q

\* lines 171-174: the critical section of the requeue
Requeue(t) ==
    /\ pc[t] = "requeue_lock"
    /\ queueMu = None
    /\ queue' = Requeued(events[t], queue)
    /\ queueMu' = None
    /\ FlushReturn(t, err[t])
    /\ UNCHANGED <<config, clientMu, closed, done, metrics, failedEvents,
                   ev, nextId, flushStarts>>

\* one iteration of the loop of lines 184-186
RecordFailed(t) ==
    /\ pc[t] = "fail_record"
    /\ failedEvents' = RecordFailedEvent(failedEvents, events[t][idx[t]], err[t], 0)
    /\ IF idx[t] = Len(events[t])
       THEN FlushReturn(t, err[t])
       ELSE /\ idx' = [idx EXCEPT ![t] = @ + 1]
            /\ UNCHANGED <<pc, op, events, resp, err, result, hist>>
    /\ UNCHANGED <<config, queue, queueMu, clientMu, closed, done, metrics,
                   ev, nextId, flushStarts>>

(***************************************************************************)
(* Client.Close and Batcher.Close                                          *)
(***************************************************************************)
CallClose(t) ==
    /\ pc[t] = "idle"
    /\ pc' = [pc EXCEPT ![t] = "close_lock"]
    /\ op' = [op EXCEPT ![t] = "close"]
    /\ hist' = HistCloseCalled(t)
    /\ UNCHANGED <<config, queue, queueMu, clientMu, closed, done, metrics, failedEvents,
                   ev, events, resp, err, idx, result, nextId, flushStarts>>

CloseLockUnchecked(t) ==
    /\ pc[t] = "close_lock"
    /\ clientMu = None
    /\ closed' = TRUE
    /\ hist' = HistClosedBy(t)
    /\ pc' = [pc EXCEPT ![t] = "close_signal"]
    /\ UNCHANGED <<config, queue, queueMu, clientMu, done, metrics, failedEvents,
                   op, ev, events, resp, err, idx, result, nextId, flushStarts>>

\* lines 518-524: c.mu.Lock, the closed test, closed = true, c.mu.Unlock
CloseLock(t) ==
    /\ pc[t] = "close_lock"
    /\ clientMu = None
    /\ IF closed
       THEN /\ pc' = [pc EXCEPT ![t] = "ret"]
            /\ UNCHANGED <<closed, hist>>
       ELSE /\ closed' = TRUE
            /\ hist' = HistClosedBy(t)
            /\ pc' = [pc EXCEPT ![t] = "close_signal"]
    /\ UNCHANGED <<config, queue, queueMu, clientMu, done, metrics, failedEvents,
                   op, ev, events, resp, err, idx, result, nextId, flushStarts>>

\* a Close that goes on to wait without closing done
CloseWithoutSignal(t) ==
    /\ pc[t] = "close_signal"
    /\ pc' = [pc EXCEPT ![t] = "close_wait"]
    /\ UNCHANGED <<config, hist, queue, queueMu, clientMu, closed, done, metrics,
                   failedEvents, op, ev, events, resp, err, idx, result, nextId,
                   flushStarts>>

\* batcher.go line 192: close(b.done)
CloseSignal(t) ==
    /\ pc[t] = "close_signal"
    /\ done' = TRUE
    /\ pc' = [pc EXCEPT ![t] = "close_wait"]
    /\ UNCHANGED <<config, hist, queue, queueMu, clientMu, closed, metrics, failedEvents,
                   op, ev, events, resp, err, idx, result, nextId, flushStarts>>

CloseWithoutWait(t) ==
    /\ pc[t] = "close_wait"
    /\ pc' = [pc EXCEPT ![t] = "flush_lock"]
    /\ UNCHANGED <<config, hist, queue, queueMu, clientMu, closed, done, metrics, failedEvents,
                   op, ev, events, resp, err, idx, result, nextId, flushStarts>>

\* batcher.go line 193: b.wg.Wait returns when the background goroutine has
\* returned; Flush is called next
CloseWait(t) ==
    /\ pc[t] = "close_wait"
    /\ pc[BG] = "bg_stopped"
    /\ pc' = [pc EXCEPT ![t] = "flush_lock"]
    /\ UNCHANGED <<config, hist, queue, queueMu, clientMu, closed, done, metrics, failedEvents,
                   op, ev, events, resp, err, idx, result, nextId, flushStarts>>

\* the caller takes the returned value and is free to make its next call
Return(t) ==
    /\ pc[t] = "ret"
    /\ pc' = [pc EXCEPT ![t] = "idle"]
    /\ op' = [op EXCEPT ![t] = None]
    /\ ev' = [ev EXCEPT ![t] = 0]
    /\ result' = [result EXCEPT ![t] = Nil]
    /\ hist' = HistReturned(t)
    /\ UNCHANGED <<config, queue, queueMu, clientMu, closed, done, metrics, failedEvents,
                   events, resp, err, idx, nextId, flushStarts>>

(***************************************************************************)
(* The background loop of Batcher.Start                                    *)
(***************************************************************************)
Tick ==
    /\ pc[BG] = "bg_select"
    /\ flushStarts < MaxFlushes
    /\ flushStarts' = flushStarts + 1
    /\ pc' = [pc EXCEPT ![BG] = "flush_lock"]
    /\ op' = [op EXCEPT ![BG] = "timer"]
    /\ UNCHANGED <<config, hist, queue, queueMu, clientMu, closed, done, metrics, failedEvents,
                   ev, events, resp, err, idx, result, nextId>>

\* the same case of the select in a run whose ticks are not counted: the
\* ticker goes on firing for as long as the loop runs
TickForever ==
    /\ pc[BG] = "bg_select"
    /\ pc' = [pc EXCEPT ![BG] = "flush_lock"]
    /\ op' = [op EXCEPT ![BG] = "timer"]
    /\ UNCHANGED <<config, hist, queue, queueMu, clientMu, closed, done, metrics, failedEvents,
                   ev, events, resp, err, idx, result, nextId, flushStarts>>

Stop ==
    /\ pc[BG] = "bg_select"
    /\ done
    /\ pc' = [pc EXCEPT ![BG] = "bg_stopped"]
    /\ UNCHANGED <<config, hist, queue, queueMu, clientMu, closed, done, metrics, failedEvents,
                   op, ev, events, resp, err, idx, result, nextId, flushStarts>>

Next ==
    \/ \E t \in Callers : CallEnqueue(t)
    \/ \E t \in Callers : EnqueueLock(t)
    \/ \E t \in Callers : AddLocked(t)
    \/ \E t \in Callers : AddRelock(t)
    \/ \E t \in Callers : CallFlush(t)
    \/ \E t \in Threads : FlushLocked(t)
    \/ \E t \in Threads : SendStart(t)
    \/ \E t \in Threads : SendDone(t)
    \/ \E t \in Threads : AfterSend(t)
    \/ \E t \in Threads : Requeue(t)
    \/ \E t \in Threads : RecordFailed(t)
    \/ \E t \in Callers : CallClose(t)
    \/ \E t \in Callers : CloseLock(t)
    \/ \E t \in Callers : CloseSignal(t)
    \/ \E t \in Callers : CloseWait(t)
    \/ \E t \in Callers : Return(t)
    \/ Tick
    \/ Stop

Spec == Init /\ [][Next]_vars

\* the same client, started from the aged state
SpecAged == InitAged /\ [][Next]_vars

\* a running client that is used by producers only: enqueue calls and the
\* background loop, no explicit Flush and no Close
NextProducers ==
    \/ \E t \in Callers : CallEnqueue(t)
    \/ \E t \in Callers : EnqueueLock(t)
    \/ \E t \in Callers : AddLocked(t)
    \/ \E t \in Callers : AddRelock(t)
    \/ \E t \in Threads : FlushLocked(t)
    \/ \E t \in Threads : SendStart(t)
    \/ \E t \in Threads : SendDone(t)
    \/ \E t \in Threads : AfterSend(t)
    \/ \E t \in Threads : Requeue(t)
    \/ \E t \in Threads : RecordFailed(t)
    \/ \E t \in Callers : Return(t)
    \/ Tick

SpecProducers == Init /\ [][NextProducers]_vars

\* the producers' client with the fate of every event written down
InitConserved ==
    /\ hist = [NoHistory EXCEPT !.recording = {"accepted", "fate"}]
    /\ \E cfg \in Configs : InitWith(cfg, 0)

SpecConserved == InitConserved /\ [][NextProducers]_vars

\* the client of Spec with the history of the run written down
SpecTracked == InitTracked /\ [][Next]_vars

\* producers against a server that can answer anything, while the ticker
\* does not fire; the answers are written down
NextTransport ==
    \/ \E t \in Callers : CallEnqueue(t)
    \/ \E t \in Callers : EnqueueLock(t)
    \/ \E t \in Callers : AddLocked(t)
    \/ \E t \in Callers : AddRelock(t)
    \/ \E t \in Threads : FlushLocked(t)
    \/ \E t \in Threads : SendStart(t)
    \/ \E t \in Threads : SendDoneAny(t)
    \/ \E t \in Threads : AfterSend(t)
    \/ \E t \in Threads : Requeue(t)
    \/ \E t \in Threads : RecordFailed(t)
    \/ \E t \in Callers : Return(t)

InitTransport ==
    /\ hist = [NoHistory EXCEPT !.recording = {"answer"}]
    /\ \E cfg \in Configs : InitWith(cfg, 0)

SpecTransport == InitTransport /\ [][NextTransport]_vars

\* every operation of a client with metrics enabled, with sends that run out
\* of time, requests that cannot be built and bodies that do not parse; the
\* answers are written down
NextFailures ==
    \/ \E t \in Callers : CallEnqueue(t)
    \/ \E t \in Callers : EnqueueLock(t)
    \/ \E t \in Callers : AddLocked(t)
    \/ \E t \in Callers : AddRelock(t)
    \/ \E t \in Callers : CallFlush(t)
    \/ \E t \in Threads : FlushLocked(t)
    \/ \E t \in Threads : SendStart(t)
    \/ \E t \in Threads : SendUnbuilt(t)
    \/ \E t \in Threads : SendDoneFailing(t)
    \/ \E t \in Threads : AfterSend(t)
    \/ \E t \in Threads : Requeue(t)
    \/ \E t \in Threads : RecordFailed(t)
    \/ \E t \in Callers : CallClose(t)
    \/ \E t \in Callers : CloseLock(t)
    \/ \E t \in Callers : CloseSignal(t)
    \/ \E t \in Callers : CloseWait(t)
    \/ \E t \in Callers : Return(t)
    \/ Stop

InitFailures ==
    /\ hist = [NoHistory EXCEPT !.recording = {"answer"}]
    /\ \E cfg \in Configs : cfg.MetricsEnabled /\ InitWith(cfg, 0)

SpecFailures == InitFailures /\ [][NextFailures]_vars

(***************************************************************************)
(* A running client for as long as one likes: producers, and a ticker that *)
(* never stops.  Every goroutine that is inside Flush goes on (the         *)
(* scheduler is fair and the critical sections of the queue mutex are      *)
(* short), the ticker goes on firing, and a transport that is asked again  *)
(* and again to send an event does not answer with a retryable failure     *)
(* every time.  Metrics are off (the default), so that no counter grows    *)
(* for ever and the loop that records failed events is never entered.      *)
(***************************************************************************)
NextLive ==
    \/ \E t \in Callers : CallEnqueue(t)
    \/ \E t \in Callers : EnqueueLock(t)
    \/ \E t \in Callers : AddLocked(t)
    \/ \E t \in Callers : AddRelock(t)
    \/ \E t \in Threads : FlushLocked(t)
    \/ \E t \in Threads : SendStart(t)
    \/ \E t \in Threads : SendDone(t)
    \/ \E t \in Threads : AfterSend(t)
    \/ \E t \in Threads : Requeue(t)
    \/ \E t \in Callers : Return(t)
    \/ TickForever

\* the send of a batch that holds event e gets an answer that is not a
\* retryable failure
DefinitiveAnswer(e) ==
    \E t \in Threads :
        /\ \E i \in 1..Len(events[t]) : events[t][i] = e
        /\ SendDone(t)
        /\ ~IsRetryable(err'[t])

FlushProgress(t) ==
    FlushLocked(t) \/ SendStart(t) \/ SendDone(t) \/ AfterSend(t) \/ Requeue(t)

Fairness ==
    /\ WF_vars(TickForever)
    /\ \A t \in Threads : WF_vars(FlushProgress(t))
    /\ \A e \in 1..MaxEvents : SF_vars(DefinitiveAnswer(e))

InitLive ==
    /\ hist = NoHistory
    /\ \E cfg \in Configs : ~cfg.MetricsEnabled /\ InitWith(cfg, 0)

SpecLive == InitLive /\ [][NextLive]_vars /\ Fairness

(***************************************************************************)
(* Shutdown of a running client: producers, explicit flushes, a ticker     *)
(* that fires for as long as the loop runs, and Close.  Every goroutine    *)
(* that is inside a call goes on: a send gets its answer (the transport    *)
(* terminates), the mutexes are handed to those who wait for them, and the *)
(* select of the loop, which chooses at random among the cases that are    *)
(* ready, does not choose the ticker for ever once done is closed.         *)
(* Metrics are off, as in NextLive.                                        *)
(***************************************************************************)
NextShutdown ==
    \/ \E t \in Callers : CallEnqueue(t)
    \/ \E t \in Callers : EnqueueLock(t)
    \/ \E t \in Callers : AddLocked(t)
    \/ \E t \in Callers : AddRelock(t)
    \/ \E t \in Callers : CallFlush(t)
    \/ \E t \in Threads : FlushLocked(t)
    \/ \E t \in Threads : SendStart(t)
    \/ \E t \in Threads : SendDone(t)
    \/ \E t \in Threads : AfterSend(t)
    \/ \E t \in Threads : Requeue(t)
    \/ \E t \in Callers : CallClose(t)
    \/ \E t \in Callers : CloseLock(t)
    \/ \E t \in Callers : CloseSignal(t)
    \/ \E t \in Callers : CloseWait(t)
    \/ \E t \in Callers : Return(t)
    \/ TickForever
    \/ Stop

\* the steps of a call that is under way, up to its return
CallProgress(t) ==
    \/ EnqueueLock(t) \/ AddLocked(t) \/ AddRelock(t)
    \/ CloseLock(t) \/ CloseSignal(t) \/ CloseWait(t)

FairnessShutdown ==
    /\ \A t \in Threads : WF_vars(FlushProgress(t))
    /\ \A t \in Callers : WF_vars(CallProgress(t))
    /\ SF_vars(Stop)

SpecShutdown == InitLive /\ [][NextShutdown]_vars /\ FairnessShutdown

(***************************************************************************)
(* Construction.  NewClient is called with a configuration that may be     *)
(* anything: nil, keys and URL empty or not, thresholds and flush interval *)
(* negative, zero or positive, enabled or not.                             *)
(***************************************************************************)
NilConfig == [isNil |-> TRUE]

\* config.go lines 62-77, durations in seconds
DefaultConfig ==
    [isNil |-> FALSE, PublicKey |-> "", SecretKey |-> "",
     BaseURL |-> "https://cloud.langfuse.com",
     FlushInterval |-> 1, FlushAt |-> 15, MaxQueueSize |-> 1000, Enabled |-> TRUE,
     MaxRetryAttempts |-> 5, MetricsEnabled |-> FALSE]

CandidateConfigs ==
    {NilConfig} \cup
    {[isNil |-> FALSE, PublicKey |-> pk, SecretKey |-> sk, BaseURL |-> url,
      FlushInterval |-> fi, FlushAt |-> fa, MaxQueueSize |-> mq, Enabled |-> en,
      MaxRetryAttempts |-> 5, MetricsEnabled |-> FALSE] :
        pk \in {"", "pk"}, sk \in {"", "sk"}, url \in {"", "https://cloud.langfuse.com"},
        fi \in {-1, 0, 1}, fa \in {-1, 0, 1, 2}, mq \in {-1, 0, 1, 2}, en \in BOOLEAN}

ConfigError(field) == [type |-> "ConfigError", Field |-> field]

\* config.go lines 80-97
Validate(c) ==
    IF c.PublicKey = "" THEN ConfigError("PublicKey")
    ELSE IF c.SecretKey = "" THEN ConfigError("SecretKey")
    ELSE IF c.BaseURL = "" THEN ConfigError("BaseURL")
    ELSE IF c.FlushAt <= 0 THEN ConfigError("FlushAt")
    ELSE IF c.MaxQueueSize <= 0 THEN ConfigError("MaxQueueSize")
    ELSE Nil

\* the caller c1 is about to call NewClient(config); there is no client and
\* no background goroutine yet
InitConstruct ==
    /\ config \in CandidateConfigs
    /\ hist = NoHistory
    /\ queue = <<>>
    /\ queueMu = None
    /\ clientMu = None
    /\ closed = FALSE
    /\ done = FALSE
    /\ metrics = ZeroMetrics
    /\ failedEvents = [old |-> 0, recent |-> <<>>]
    /\ pc = [t \in Threads |-> IF t = "c1" THEN "new_client" ELSE "unborn"]
    /\ op = [t \in Threads |-> IF t = "c1" THEN "NewClient" ELSE None]
    /\ ev = [t \in Threads |-> 0]
    /\ events = [t \in Threads |-> <<>>]
    /\ resp = [t \in Threads |-> NoResp]
    /\ err = [t \in Threads |-> Nil]
    /\ idx = [t \in Threads |-> 0]
    /\ result = [t \in Threads |-> Nil]
    /\ nextId = 1
    /\ flushStarts = 0

\* trace.go lines 390-414 and batcher.go lines 33-35: NewClient returns the
\* error of Validate and no client ("no_client"), or a client ("ret"), with
\* the background goroutine started when the configuration is enabled;
\* time.NewTicker panics when the interval is not positive ("panic")
NewClient(t) ==
    /\ pc[t] = "new_client"
    /\ LET c == IF config.isNil THEN DefaultConfig ELSE config
       IN  /\ config' = c
           /\ IF Validate(c) # Nil
              THEN /\ pc' = [pc EXCEPT ![t] = "no_client"]
                   /\ result' = [result EXCEPT ![t] = Validate(c)]
              ELSE IF ~c.Enabled
              THEN /\ pc' = [pc EXCEPT ![t] = "ret"]
                   /\ UNCHANGED result
              ELSE IF c.FlushInterval <= 0
              THEN /\ pc' = [pc EXCEPT ![t] = "panic"]
                   /\ UNCHANGED result
              ELSE /\ pc' = [pc EXCEPT ![t] = "ret", ![BG] = "bg_select"]
                   /\ UNCHANGED result
    /\ UNCHANGED <<hist, queue, queueMu, clientMu, closed, done, metrics, failedEvents,
                   op, ev, events, resp, err, idx, nextId, flushStarts>>

NextConstruct == \E t \in Callers : NewClient(t)

SpecConstruct == InitConstruct /\ [][NextConstruct]_vars

(***************************************************************************)
(* MetricsSnapshot.  A snapshot is a value of an exported struct: its       *)
(* methods are called on whatever the caller holds.  A float64 result is    *)
(* written as the fraction num / den; den = 0 stands for the NaN or the     *)
(* infinity a float64 division by zero yields.                              *)
(***************************************************************************)
Float(n) == [num |-> n, den |-> 1]

\* (float64(a) / float64(b)) * 100.0
Percentage(a, b) == [num |-> a * 100, den |-> b]

MetricsSnapshots ==
    {[EventsEnqueued |-> e, EventsFlushed |-> f, EventsSucceeded |-> s,
      EventsFailed |-> 0, EventsDropped |-> d, FlushCount |-> 0, RetryCount |-> 0,
      FailedEventCount |-> 0] :
        e \in 0..MaxCount, f \in 0..MaxCount, s \in 0..MaxCount, d \in 0..MaxCount}

\* a SuccessRate without the test for zero
SuccessRateUnguarded(s) == Percentage(s.EventsSucceeded, s.EventsFlushed)

SuccessRate(s) ==
    IF s.EventsFlushed = 0
    THEN Float(100)
    ELSE Percentage(s.EventsSucceeded, s.EventsFlushed)

DropRate(s) ==
    IF s.EventsEnqueued = 0
    THEN Float(0)
    ELSE Percentage(s.EventsDropped, s.EventsEnqueued)

\* a caller computes a rate of a snapshot it holds
CallRate(t, method, s, rate) ==
    /\ pc[t] = "idle"
    /\ pc' = [pc EXCEPT ![t] = "ret"]
    /\ op' = [op EXCEPT ![t] = method]
    /\ ev' = [ev EXCEPT ![t] = s]
    /\ result' = [result EXCEPT ![t] = rate]
    /\ UNCHANGED <<config, hist, queue, queueMu, clientMu, closed, done, metrics,
                   failedEvents, events, resp, err, idx, nextId, flushStarts>>

CallSuccessRate(t) ==
    \E s \in MetricsSnapshots : CallRate(t, "SuccessRate", s, SuccessRate(s))

CallDropRate(t) ==
    \E s \in MetricsSnapshots : CallRate(t, "DropRate", s, DropRate(s))

NextRates ==
    \E t \in Callers :
        \/ CallSuccessRate(t)
        \/ CallDropRate(t)
        \/ Return(t)

InitRates ==
    /\ hist = NoHistory
    /\ \E cfg \in Configs : cfg.MetricsEnabled /\ InitWith(cfg, 0)

SpecRates == InitRates /\ [][NextRates]_vars

(***************************************************************************)
(* The recorder at the grain of its memory accesses, and a caller that     *)
(* reads it through Client.GetMetrics while producers run.  RecordFlush is *)
(* four atomic additions; RecordFailedEvent appends and then truncates,    *)
(* holding Metrics.mu (the goroutine at "fail_evict" holds it);            *)
(* GetSnapshot loads the counters one after the other, in the order of the *)
(* fields of its struct literal, and then reads len(m.failedEvents)        *)
(* without taking Metrics.mu.                                              *)
(***************************************************************************)
ZeroSnapshot ==
    [EventsEnqueued |-> 0, EventsFlushed |-> 0, EventsSucceeded |-> 0,
     EventsFailed |-> 0, EventsDropped |-> 0, FlushCount |-> 0, RetryCount |-> 0,
     FailedEventCount |-> 0]

\* trace.go lines 280-288: the i-th field of the struct literal joined to
\* the snapshot s
SnapshotLoaded(s, i) ==
    CASE i = 1 -> [s EXCEPT !.EventsEnqueued = metrics.eventsEnqueued]
      [] i = 2 -> [s EXCEPT !.EventsFlushed = metrics.eventsFlushed]
      [] i = 3 -> [s EXCEPT !.EventsSucceeded = metrics.eventsSucceeded]
      [] i = 4 -> [s EXCEPT !.EventsFailed = metrics.eventsFailed]
      [] i = 5 -> [s EXCEPT !.EventsDropped = metrics.eventsDropped]
      [] i = 6 -> [s EXCEPT !.FlushCount = metrics.flushCount]
      [] i = 7 -> [s EXCEPT !.RetryCount = metrics.retryCount]
      [] OTHER -> [s EXCEPT !.FailedEventCount = FailedLen(failedEvents)]

SnapshotFieldCount == 8

\* Client.GetMetrics is called
CallGetSnapshot(t) ==
    /\ pc[t] = "idle"
    /\ pc' = [pc EXCEPT ![t] = "snap_load"]
    /\ op' = [op EXCEPT ![t] = "GetSnapshot"]
    /\ idx' = [idx EXCEPT ![t] = 1]
    /\ result' = [result EXCEPT ![t] = ZeroSnapshot]
    /\ UNCHANGED <<config, hist, queue, queueMu, clientMu, closed, done, metrics,
                   failedEvents, ev, events, resp, err, nextId, flushStarts>>

\* one load of GetSnapshot; after the last one the snapshot is returned
SnapshotLoad(t) ==
    /\ pc[t] = "snap_load"
    /\ result' = [result EXCEPT ![t] = SnapshotLoaded(@, idx[t])]
    /\ IF idx[t] = SnapshotFieldCount
       THEN /\ pc' = [pc EXCEPT ![t] = "ret"]
            /\ idx' = [idx EXCEPT ![t] = 0]
       ELSE /\ idx' = [idx EXCEPT ![t] = @ + 1]
            /\ UNCHANGED pc
    /\ UNCHANGED <<config, hist, queue, queueMu, clientMu, closed, done, metrics,
                   failedEvents, op, ev, events, resp, err, nextId, flushStarts>>

\* trace.go lines 236-241, the i-th atomic operation of RecordFlush
RecordFlushStep(m, i, success, failed) ==
    CASE i = 1 -> [m EXCEPT !.eventsFlushed = @ + success + failed]
      [] i = 2 -> [m EXCEPT !.eventsSucceeded = @ + success]
      [] i = 3 -> [m EXCEPT !.eventsFailed = @ + failed]
      [] OTHER -> [m EXCEPT !.flushCount = @ + 1]

RecordFlushStepCount == 4

\* batcher.go lines 124-140: as AfterSend, up to the first atomic operation
\* of RecordFlush
AfterSendStepwise(t) ==
    /\ pc[t] = "sent"
    /\ IF err[t] # Nil
       THEN HandleFlushError(t)
       ELSE IF config.MetricsEnabled
       THEN /\ metrics' = RecordFlushStep(metrics, 1, resp[t].Successes, resp[t].Errors)
            /\ pc' = [pc EXCEPT ![t] = "record_flush"]
            /\ idx' = [idx EXCEPT ![t] = 2]
            /\ UNCHANGED <<op, events, resp, err, result, hist>>
       ELSE /\ FlushReturn(t, Nil)
            /\ UNCHANGED metrics
    /\ UNCHANGED <<config, queue, queueMu, clientMu, closed, done, failedEvents,
                   ev, nextId, flushStarts>>

\* the next atomic operation of RecordFlush; Flush returns after the last
RecordFlushNext(t) ==
    /\ pc[t] = "record_flush"
    /\ metrics' = RecordFlushStep(metrics, idx[t], resp[t].Successes, resp[t].Errors)
    /\ IF idx[t] = RecordFlushStepCount
       THEN FlushReturn(t, Nil)
       ELSE /\ idx' = [idx EXCEPT ![t] = @ + 1]
            /\ UNCHANGED <<pc, op, events, resp, err, result, hist>>
    /\ UNCHANGED <<config, queue, queueMu, clientMu, closed, done, failedEvents,
                   ev, nextId, flushStarts>>

\* trace.go lines 259-264: the append
FailedAppended(f, event, e, attempt) ==
    [f EXCEPT !.recent = Append(@, [Event |-> event, Error |-> e, Attempt |-> attempt])]

\* trace.go lines 267-269: the truncation to the last FailedCap records
FailedTruncated(f) ==
    IF FailedLen(f) > FailedCap
    THEN IF f.old > 0
         THEN [f EXCEPT !.old = @ - 1]
         ELSE [f EXCEPT !.recent = Tail(@)]
    ELSE f

\* RecordFailedEvent takes Metrics.mu and appends
RecordFailedAppend(t) ==
    /\ pc[t] = "fail_record"
    /\ \A u \in Threads : pc[u] # "fail_evict"
    /\ failedEvents' = FailedAppended(failedEvents, events[t][idx[t]], err[t], 0)
    /\ pc' = [pc EXCEPT ![t] = "fail_evict"]
    /\ UNCHANGED <<config, hist, queue, queueMu, clientMu, closed, done, metrics,
                   op, ev, events, resp, err, idx, result, nextId, flushStarts>>

\* RecordFailedEvent truncates and releases Metrics.mu; the loop of
\* handleFlushError goes on or Flush returns
RecordFailedEvict(t) ==
    /\ pc[t] = "fail_evict"
    /\ failedEvents' = FailedTruncated(failedEvents)
    /\ IF idx[t] = Len(events[t])
       THEN FlushReturn(t, err[t])
       ELSE /\ idx' = [idx EXCEPT ![t] = @ + 1]
            /\ pc' = [pc EXCEPT ![t] = "fail_record"]
            /\ UNCHANGED <<op, events, resp, err, result, hist>>
    /\ UNCHANGED <<config, queue, queueMu, clientMu, closed, done, metrics,
                   ev, nextId, flushStarts>>

NextObserved ==
    \/ \E t \in Callers : CallEnqueue(t)
    \/ \E t \in Callers : EnqueueLock(t)
    \/ \E t \in Callers : AddLocked(t)
    \/ \E t \in Callers : AddRelock(t)
    \/ \E t \in Threads : FlushLocked(t)
    \/ \E t \in Threads : SendStart(t)
    \/ \E t \in Threads : SendDone(t)
    \/ \E t \in Threads : AfterSendStepwise(t)
    \/ \E t \in Threads : RecordFlushNext(t)
    \/ \E t \in Threads : Requeue(t)
    \/ \E t \in Threads : RecordFailedAppend(t)
    \/ \E t \in Threads : RecordFailedEvict(t)
    \/ \E t \in Callers : CallGetSnapshot(t)
    \/ \E t \in Callers : SnapshotLoad(t)
    \/ \E t \in Callers : Return(t)

SpecObserved == InitAged /\ [][NextObserved]_vars

(***************************************************************************)
(* Waiting.  Producers, explicit flushes, the ticker and Close, with       *)
(* metrics on and Metrics.mu held from the append of RecordFailedEvent to  *)
(* its unlock.  A goroutine waits for the client mutex at enq_lock and     *)
(* close_lock, for the queue mutex at add_lock, flush_lock, requeue_lock   *)
(* and add_relock, for Metrics.mu at fail_record and for the background    *)
(* goroutine at close_wait.  Every goroutine inside a call goes on when    *)
(* it can, and every send gets its answer.                                 *)
(***************************************************************************)
NextWaiting ==
    \/ \E t \in Callers : CallEnqueue(t)
    \/ \E t \in Callers : EnqueueLock(t)
    \/ \E t \in Callers : AddLocked(t)
    \/ \E t \in Callers : AddRelock(t)
    \/ \E t \in Callers : CallFlush(t)
    \/ \E t \in Threads : FlushLocked(t)
    \/ \E t \in Threads : SendStart(t)
    \/ \E t \in Threads : SendDone(t)
    \/ \E t \in Threads : AfterSend(t)
    \/ \E t \in Threads : Requeue(t)
    \/ \E t \in Threads : RecordFailedAppend(t)
    \/ \E t \in Threads : RecordFailedEvict(t)
    \/ \E t \in Callers : CallClose(t)
    \/ \E t \in Callers : CloseLock(t)
    \/ \E t \in Callers : CloseSignal(t)
    \/ \E t \in Callers : CloseWait(t)
    \/ \E t \in Callers : Return(t)
    \/ Tick
    \/ Stop

\* the steps of RecordFailedEvent
RecordProgress(t) == RecordFailedAppend(t) \/ RecordFailedEvict(t)

FairnessWaiting ==
    /\ FairnessShutdown
    /\ \A t \in Threads : WF_vars(RecordProgress(t))

InitWaiting ==
    /\ hist = NoHistory
    /\ \E cfg \in Configs : cfg.MetricsEnabled /\ InitWith(cfg, 0)

SpecWaiting == InitWaiting /\ [][NextWaiting]_vars /\ FairnessWaiting

(***************************************************************************)
(* Properties.                                                             *)
(***************************************************************************)
Range(q) == {q[i] : i \in 1..Len(q)}

Sending(t) == pc[t] = "sending"

\* C1: in every reachable state the queue holds at most MaxQueueSize events.
\* Fails: the requeue after a retryable failure puts the whole snapshot back
\* in front of the events accepted during the send, without any size check.
C1_QueueBounded == Len(queue) <= config.MaxQueueSize

\* C2: an Add that finds the queue full returns QueueFullError{MaxQueueSize},
\* stores nothing, leaves the queue as it was and (metrics enabled) counts
\* exactly one dropped event.
C2_AddRejectsWhenFull ==
    [][\A t \in Callers :
         (pc[t] = "add_lock" /\ pc'[t] # "add_lock" /\ Len(queue) >= config.MaxQueueSize)
            => /\ pc'[t] = "ret"
               /\ result'[t] = QueueFullError(config.MaxQueueSize)
               /\ queue' = queue
               /\ ev[t] \notin Range(queue')
               /\ (config.MetricsEnabled
                     => metrics'.eventsDropped = metrics.eventsDropped + 1)]_vars

\* scenario A: the queue is full after requeues of failed sends, the next
\* Add has been rejected and one drop is counted
C2_Witness ==
    \E t \in Callers :
        /\ pc[t] = "ret"
        /\ result[t] = QueueFullError(config.MaxQueueSize)
        /\ Len(queue) = config.MaxQueueSize
        /\ metrics.eventsDropped = 1
        /\ metrics.retryCount >= 1

\* C3: a Flush that finds the queue empty sends nothing, changes no counter
\* and no queue state, and returns no error.
C3_EmptyFlushIsNoOp ==
    [][\A t \in Threads :
         (pc[t] = "flush_lock" /\ pc'[t] # "flush_lock" /\ Len(queue) = 0)
            => /\ pc'[t] \in {"ret", "add_relock", "bg_select"}
               /\ events'[t] = <<>>
               /\ queue' = queue
               /\ metrics' = metrics
               /\ failedEvents' = failedEvents
               /\ result'[t] = Nil]_vars

\* an explicit Flush has returned nil and, with metrics on, no send has ever
\* been completed or started
C3_Witness ==
    \E t \in Callers :
        /\ pc[t] = "ret" /\ op[t] = "flush" /\ result[t] = Nil
        /\ config.MetricsEnabled
        /\ metrics.flushCount = 0 /\ metrics.retryCount = 0
        /\ FailedLen(failedEvents) = 0
        /\ \A u \in Threads :
             pc[u] \notin {"send_start", "sending", "sent", "requeue_lock", "fail_record"}

\* C4: a send that failed with a retryable error is followed by the requeue,
\* and the requeue makes the queue the whole snapshot, in its order, followed
\* by the events that were in the queue at that moment.
C4_RetryableRequeuesSnapshot ==
    [][\A t \in Threads :
         /\ (pc[t] = "sent" /\ pc'[t] # "sent" /\ IsRetryable(err[t]))
               => (pc'[t] = "requeue_lock" /\ events'[t] = events[t] /\ queue' = queue)
         /\ (pc[t] = "requeue_lock" /\ pc'[t] # "requeue_lock")
               => queue' = events[t] \o queue]_vars

\* MaxQueueSize = 1: event 1 was the snapshot, event 2 was accepted during
\* the send, the explicit Flush has returned its retryable error
C4_Witness ==
    \E t \in Callers :
        /\ pc[t] = "ret" /\ op[t] = "flush" /\ IsRetryable(result[t])
        /\ config.MaxQueueSize = 1
        /\ queue = <<1, 2>>

\* C5: retryCount changes only by a flush whose send failed with a retryable
\* error, and then by exactly 1, whatever the size of the snapshot.
C5_RetryCountedOncePerFlush ==
    [][/\ (metrics'.retryCount # metrics.retryCount)
            => /\ metrics'.retryCount = metrics.retryCount + 1
               /\ \E t \in Threads :
                    pc[t] = "sent" /\ IsRetryable(err[t]) /\ pc'[t] = "requeue_lock"
       /\ \A t \in Threads :
            (config.MetricsEnabled /\ pc[t] = "sent" /\ pc'[t] # "sent" /\ IsRetryable(err[t]))
               => metrics'.retryCount = metrics.retryCount + 1]_vars

\* one retry counted for a failed flush of two events
C5_Witness ==
    \E t \in Threads :
        /\ pc[t] = "requeue_lock" /\ Len(events[t]) = 2
        /\ metrics.retryCount = 1

\* C6: after a non-retryable failure nothing of the snapshot goes back to the
\* queue, and (metrics enabled) one failed event is recorded per event of the
\* snapshot, the count being capped at 1000.
C6_NonRetryableDropsAndRecords ==
    [][\A t \in Threads :
         /\ (pc[t] = "sent" /\ pc'[t] # "sent" /\ err[t] # Nil /\ ~IsRetryable(err[t]))
               => /\ queue' = queue
                  /\ pc'[t] # "requeue_lock"
                  /\ (config.MetricsEnabled
                        => pc'[t] = "fail_record" /\ idx'[t] = 1 /\ events'[t] = events[t])
         /\ (pc[t] = "fail_record" /\ (pc'[t] # "fail_record" \/ idx'[t] # idx[t]))
               => /\ queue' = queue
                  /\ FailedLen(failedEvents') = Min(FailedLen(failedEvents) + 1, FailedCap)
                  /\ (pc'[t] = "fail_record" => idx'[t] = idx[t] + 1)
                  /\ (pc'[t] # "fail_record" => idx[t] = Len(events[t]))]_vars

\* scenario D on a buffer that held 999 records: HTTP 400 on a snapshot of two
\* events, both recorded, the oldest record evicted, the queue empty
C6_Witness ==
    \E t \in Callers :
        /\ pc[t] = "ret" /\ result[t] = NewHTTPError(400)
        /\ Len(failedEvents.recent) = 2
        /\ failedEvents.old = FailedCap - 2
        /\ Len(queue) = 0

\* no send has failed or reported a failed item so far (metrics enabled)
NoFailureSoFar ==
    /\ metrics.retryCount = 0
    /\ metrics.eventsFailed = 0
    /\ FailedLen(failedEvents) = 0

\* the FlushAt-th Add of a client with metrics has just returned nil: FlushAt
\* Adds have been entered, none of them is still running and none was rejected
KthAddReturned(t) ==
    /\ config.MetricsEnabled
    /\ pc[t] = "ret" /\ op[t] = "enqueue" /\ result[t] = Nil
    /\ metrics.eventsEnqueued = config.FlushAt
    /\ metrics.eventsDropped = 0
    /\ clientMu = None
    /\ NoFailureSoFar

Drained ==
    /\ Len(queue) = 0
    /\ metrics.eventsFlushed = config.FlushAt
    /\ metrics.eventsSucceeded = config.FlushAt
    /\ metrics.flushCount = 1

\* C7 as claimed: in a running client whose sends all succeed, when the
\* FlushAt-th Add returns the queue is empty and FlushAt events are counted as
\* flushed, in one flush.
C7_KthAddDrains == \A t \in Callers : KthAddReturned(t) => Drained

\* C7 amended: the same, provided the periodic timer has started no flush
\* since the queue was empty.
C7_KthAddDrainsWithoutTick ==
    \A t \in Callers : (KthAddReturned(t) /\ flushStarts = 0) => Drained

\* scenario B
C7_Witness ==
    \E t \in Callers :
        /\ KthAddReturned(t) /\ flushStarts = 0
        /\ config.FlushAt = 2
        /\ Drained /\ metrics.eventsSucceeded = 2

\* C8: the snapshots of two flushes whose sends are in flight at the same
\* time are disjoint.
C8_SnapshotsDisjoint ==
    \A t, u \in Threads :
        (t # u /\ Sending(t) /\ Sending(u)) => Range(events[t]) \cap Range(events[u]) = {}

C8_Witness ==
    \E t, u \in Threads :
        /\ t # u /\ Sending(t) /\ Sending(u)
        /\ events[t] # <<>> /\ events[u] # <<>>

\* C9: a thread whose send is in flight does not hold the queue mutex, so an
\* Add that waits for the queue mutex can take it.
C9_NoSendUnderQueueMutex ==
    \A t \in Threads :
        Sending(t) => /\ queueMu # t
                      /\ \A u \in Callers : pc[u] = "add_lock" => ENABLED AddLocked(u)

\* an Add has completed, its event is in the queue, while a send is in flight
C9_Witness ==
    \E t \in Threads, u \in Callers :
        /\ Sending(t)
        /\ pc[u] = "ret" /\ op[u] = "enqueue" /\ result[u] = Nil
        /\ ev[u] \in Range(queue)

\* C10: a producer that waits in Client.enqueue never waits for a thread whose
\* network send is in flight.  Fails: enqueue holds the client mutex across
\* Batcher.Add, and so across the size-triggered Flush and its send.
C10_EnqueueNeverWaitsForSend ==
    \A t \in Threads, u \in Callers :
        (Sending(t) /\ u # t /\ pc[u] = "enq_lock") => ENABLED EnqueueLock(u)

\* the call of Close that found the client open is inside its final Flush
ClosingFlush(t) ==
    /\ op[t] = "close"
    /\ pc[t] \in {"flush_lock", "send_start", "sending", "sent", "requeue_lock", "fail_record"}

\* C11: a Close that finds the client already closed returns nil at once: it
\* gives no stop signal, starts no flush and no send and changes nothing of
\* the queue or the counters; the stop signal is only ever given while the
\* stop channel is still open.
C11_SecondCloseIsNoOp ==
    [][\A t \in Callers :
         /\ (pc[t] = "close_lock" /\ pc'[t] # "close_lock" /\ closed)
               => /\ pc'[t] = "ret"
                  /\ result'[t] = Nil
                  /\ done' = done
                  /\ queue' = queue
                  /\ events' = events
                  /\ metrics' = metrics
                  /\ flushStarts' = flushStarts
         /\ (pc[t] = "close_signal") => ~done]_vars

\* a second Close has returned nil while the first is still waiting for the
\* background goroutine, and the queue still holds an event
C11_Witness ==
    \E t, u \in Callers :
        /\ t # u
        /\ pc[t] = "ret" /\ op[t] = "close" /\ result[t] = Nil
        /\ pc[u] = "close_wait"
        /\ queue # <<>>

\* C12: closed is never cleared once set, and an enqueue that finds the
\* client closed returns the closed-client error and changes neither the
\* queue nor any counter.
C12_ClosedIsFinal ==
    [][/\ closed => closed'
       /\ \A t \in Callers :
            (pc[t] = "enq_lock" /\ pc'[t] # "enq_lock" /\ closed)
               => /\ pc'[t] = "ret"
                  /\ result'[t] = ClosedError
                  /\ queue' = queue
                  /\ metrics' = metrics
                  /\ failedEvents' = failedEvents]_vars

\* an enqueue was refused by a closed client that had accepted an event before
C12_Witness ==
    \E t \in Callers :
        /\ pc[t] = "ret" /\ op[t] = "enqueue" /\ result[t] = ClosedError
        /\ closed
        /\ config.MetricsEnabled /\ metrics.eventsEnqueued = 1

\* C13: when the Close that shut the client down has returned, every event
\* that had been accepted when it was called has been in the batch of a send
\* that was started.  Fails: an event in the snapshot of a concurrent explicit
\* Flush that has not reached the transport yet is neither in the queue the
\* final Flush drains nor waited for.
C13_CloseDrainsAccepted ==
    \A t \in Callers :
        (pc[t] = "ret" /\ op[t] = "close" /\ hist.closer = t)
            => \A e \in hist.atClose[t] : hist.attempts[e] >= 1

\* C14: the Close that found the client open has marked it closed before it
\* signals, has signalled before it waits, and is in its final Flush only
\* when the background goroutine has returned, which then never runs again;
\* it makes one Flush and returns what that Flush returns.
C14_CloseOrder ==
    /\ [](\A t \in Callers :
            /\ (op[t] = "close" /\ pc[t] \in {"close_signal", "close_wait"}) => closed
            /\ (op[t] = "close" /\ pc[t] = "close_wait") => done
            /\ ClosingFlush(t) => (closed /\ done /\ pc[BG] = "bg_stopped"))
    /\ [][/\ pc[BG] = "bg_stopped" => pc'[BG] = "bg_stopped"
          /\ \A t \in Callers :
               (ClosingFlush(t) /\ ~(ClosingFlush(t))')
                  => /\ pc'[t] = "ret"
                     /\ result'[t] = IF pc[t] = "flush_lock" THEN Nil ELSE err[t]]_vars

\* Close has returned the retryable error of its final Flush, which has put
\* the snapshot back
C14_Witness ==
    \E t \in Callers :
        /\ pc[t] = "ret" /\ op[t] = "close" /\ IsRetryable(result[t])
        /\ pc[BG] = "bg_stopped"
        /\ queue # <<>>

\* what the classifier has to make of HTTP status s
ClassifiedAs(s, e) ==
    /\ e.type = "LangfuseError"
    /\ e.StatusCode = s
    /\ e.retryable <=> (s = 429 \/ (500 <= s /\ s <= 599))
    /\ e.Code = CASE s = 429 -> "RATE_LIMITED"
                  [] 500 <= s /\ s <= 599 -> "SERVER_ERROR"
                  [] 400 <= s /\ s <= 499 /\ s # 429 -> "CLIENT_ERROR"
                  [] OTHER -> "HTTP_" \o ToString(s)

\* C15: the error built for HTTP status s is retryable exactly for 429 and
\* 500-599 and has the code of its class, both when sendIngestion builds it
\* for the status of a response and for every status of StatusCodes; a send
\* that got no complete response gives a retryable NETWORK_ERROR.
C15_ClassifierTable ==
    /\ \A s \in StatusCodes : ClassifiedAs(s, NewHTTPError(s))
    /\ \A t \in Threads :
         LET w == hist.answer[t]
             e == err[t]
         IN  /\ (pc[t] = "sent" /\ w.kind = "network")
                   => (e.type = "LangfuseError" /\ e.Code = "NETWORK_ERROR" /\ e.retryable)
             /\ (pc[t] = "sent" /\ w.kind = "http" /\ e.type = "LangfuseError")
                   => ClassifiedAs(w.status, e)

\* a 302 has been classified as the generic, non-retryable HTTP_302 and a
\* 429 as the retryable RATE_LIMITED
C15_Witness ==
    \E t \in Threads :
        /\ pc[t] = "sent" /\ hist.answer[t].kind = "http" /\ hist.answer[t].status = 302
        /\ err[t].Code = "HTTP_302" /\ ~err[t].retryable
        /\ NewHTTPError(429).Code = "RATE_LIMITED" /\ NewHTTPError(429).retryable

AcceptedStatus(w) == w.status \in {StatusOK, StatusMultiStatus}

C17_RetriesBounded ==
    \A e \in DOMAIN hist.attempts : hist.attempts[e] <= config.MaxRetryAttempts + 1

\* the values Client.enqueue can return
EnqueueResults == {Nil, QueueFullError(config.MaxQueueSize), ClosedError}

\* the size-triggered Flush inside Add has got its answer
InAddFlushAfterSend(t) ==
    op[t] = "enqueue" /\ pc[t] \in {"sent", "requeue_lock", "fail_record", "add_relock"}

\* C19: enqueue returns nil, QueueFullError or the closed-client error only;
\* Add starts its size-triggered Flush in the step that appends its event,
\* and whatever the send of that Flush answers, Add goes on to return nil.
C19_AddAbsorbsFlushError ==
    /\ [](\A t \in Callers :
            (pc[t] = "ret" /\ op[t] = "enqueue") => result[t] \in EnqueueResults)
    /\ [][\A t \in Callers :
            /\ (op[t] = "enqueue" /\ pc[t] # "flush_lock" /\ pc'[t] = "flush_lock")
                  => (pc[t] = "add_lock" /\ queue' = Append(queue, ev[t]))
            /\ (InAddFlushAfterSend(t) /\ pc'[t] # pc[t])
                  => \/ pc'[t] \in {"requeue_lock", "fail_record", "add_relock"}
                     \/ (pc[t] = "add_relock" /\ pc'[t] = "ret" /\ result'[t] = Nil)]_vars

\* the size-triggered Flush of the first Add failed with a retryable error
\* and the Add has returned nil; its event is back in the queue
C19_Witness ==
    \E t \in Callers :
        /\ pc[t] = "ret" /\ op[t] = "enqueue" /\ result[t] = Nil
        /\ config.MetricsEnabled /\ metrics.retryCount = 1
        /\ flushStarts = 0
        /\ ev[t] \in Range(queue)

\* the send of a batch that holds event e has got an answer that is not a
\* retryable failure: the batch was accepted by the transport, or it is
\* dropped for good
Settled(e) ==
    \E t \in Threads :
        /\ pc[t] = "sent"
        /\ e \in Range(events[t])
        /\ ~IsRetryable(err[t])

\* C18: in a running client with a fair ticker and a transport that does not
\* fail retryably forever, every event that is in the queue is eventually in
\* a batch that is accepted by the transport or dropped by a non-retryable
\* failure.
C18_AcceptedEventuallySettled ==
    \A e \in 1..MaxEvents : (e \in Range(queue)) ~> Settled(e)

\* MaxQueueSize = 1: event 1 went back to the queue in front of event 2 after
\* a retryable failure, and the batch of both has been accepted
C18_Witness ==
    \E t \in Threads :
        /\ pc[t] = "sent" /\ err[t] = Nil
        /\ events[t] = <<1, 2>>
        /\ config.MaxQueueSize = 1

\* the call of NewClient is over
Constructed(t) == op[t] = "NewClient" /\ pc[t] # "new_client"

InvalidConfig(c) ==
    c.PublicKey = "" \/ c.SecretKey = "" \/ c.BaseURL = "" \/ c.FlushAt <= 0
        \/ c.MaxQueueSize <= 0

\* C20: NewClient returns a ConfigError and no client, and starts no
\* background goroutine, when a key or the URL is empty or a threshold is not
\* positive; for every other enabled configuration it returns a running
\* client whose background goroutine is started.  Fails: FlushInterval is not
\* validated and time.NewTicker panics when it is not positive.
C20_NewClientValidates ==
    \A t \in Callers :
        Constructed(t)
            => IF InvalidConfig(config)
               THEN /\ pc[t] = "no_client"
                    /\ result[t].type = "ConfigError"
                    /\ pc[BG] = "unborn"
               ELSE config.Enabled
                       => /\ pc[t] = "ret" /\ result[t] = Nil
                          /\ ~closed
                          /\ pc[BG] = "bg_select"

\* no Add is between its RecordEnqueued and its test of the queue length
NoAddInProgress == \A t \in Callers : pc[t] # "add_lock"

\* C21: with metrics enabled, whenever no Add is in progress eventsEnqueued
\* is the number of events that Add has accepted into the queue.  Fails: Add
\* calls RecordEnqueued before it tests whether the queue is full, so an Add
\* that is rejected has been counted as enqueued, too.
C21_EnqueuedCountsAccepted ==
    (config.MetricsEnabled /\ NoAddInProgress)
        => metrics.eventsEnqueued = Cardinality(hist.accepted)

\* a was appended to the queue by Add before b was
AcceptedBefore(a, b) ==
    \E m, n \in 1..Len(hist.order) :
        m < n /\ hist.order[m] = a /\ hist.order[n] = b

\* C22: the queue lists its events in the order in which Add accepted them.
\* Fails: two flushes that run concurrently and both fail with a retryable
\* error put their snapshots back in the order in which they fail, which
\* need not be the order in which the snapshots were taken.
C22_QueueIsFIFO ==
    \A i, j \in 1..Len(queue) : i < j => AcceptedBefore(queue[i], queue[j])

\* the record that RecordFailed is about to append for goroutine t
FailedRecord(t) == [Event |-> events[t][idx[t]], Error |-> err[t], Attempt |-> 0]

\* C23: GetFailedEvents never returns more than 1000 records, and every
\* record that is made is appended at the end; when the buffer held 1000
\* records, the record at its head (the oldest) is the one that goes, the
\* others stay in their order.
C23_FailedBufferKeepsMostRecent ==
    /\ [](FailedLen(GetFailedEvents) <= FailedCap)
    /\ [][\A t \in Threads :
            (pc[t] = "fail_record" /\ (pc'[t] # "fail_record" \/ idx'[t] # idx[t]))
               => LET before == GetFailedEvents
                      after == GetFailedEvents'
                  IN  IF FailedLen(before) < FailedCap
                      THEN /\ after.old = before.old
                           /\ after.recent = Append(before.recent, FailedRecord(t))
                      ELSE IF before.old > 0
                      THEN /\ after.old = before.old - 1
                           /\ after.recent = Append(before.recent, FailedRecord(t))
                      ELSE /\ after.old = 0
                           /\ after.recent = Append(Tail(before.recent), FailedRecord(t))]_vars

\* the buffer held 999 records; two more were made, for events 1 and 2 in
\* this order, and the oldest of the 999 has been evicted
C23_Witness ==
    /\ FailedLen(GetFailedEvents) = FailedCap
    /\ Len(GetFailedEvents.recent) = 2
    /\ GetFailedEvents.recent[1].Event = 1
    /\ GetFailedEvents.recent[2].Event = 2

\* C24: SuccessRate of a snapshot with EventsFlushed = 0 is 100 and DropRate
\* of a snapshot with EventsEnqueued = 0 is 0, whatever the other counters.
C24_RatesOfEmptySnapshot ==
    \A t \in Callers :
        pc[t] = "ret"
           => /\ (op[t] = "SuccessRate" /\ ev[t].EventsFlushed = 0)
                    => result[t] = Float(100)
              /\ (op[t] = "DropRate" /\ ev[t].EventsEnqueued = 0)
                    => result[t] = Float(0)

\* SuccessRate has returned 100 for a snapshot with nothing flushed and a
\* positive number of successes, while the other caller has got DropRate 0
\* for a snapshot with nothing enqueued and a positive number of drops
C24_Witness ==
    \E t, u \in Callers :
        /\ pc[t] = "ret" /\ op[t] = "SuccessRate"
        /\ ev[t].EventsFlushed = 0 /\ ev[t].EventsSucceeded > 0
        /\ result[t] = Float(100)
        /\ pc[u] = "ret" /\ op[u] = "DropRate"
        /\ ev[u].EventsEnqueued = 0 /\ ev[u].EventsDropped > 0
        /\ result[u] = Float(0)

\* C25: when the Flush of a tick returns, with or without an error, the loop
\* is back at its select and no caller's call or result has changed; the
\* loop at its select is ready for the next tick, and it ends only by
\* taking the stop signal at the select.
C25_TimerFlushErrorAbsorbed ==
    /\ [](pc[BG] = "bg_select" => ENABLED TickForever)
    /\ [][/\ (op[BG] = "timer" /\ op'[BG] # "timer")
               => /\ pc'[BG] = "bg_select"
                  /\ \A t \in Callers : result'[t] = result[t] /\ pc'[t] = pc[t]
          /\ (pc[BG] # "bg_stopped" /\ pc'[BG] = "bg_stopped")
               => (pc[BG] = "bg_select" /\ done)]_vars

\* FlushAt = 2; both callers entered enqueue before any event was accepted
\* and are still inside it, one event is accepted; the flush that failed with
\* a retryable error can only be the ticker's: the loop is back at its
\* select, the event is back in the queue and the Add has returned nil
C25_Witness ==
    \E t, u \in Callers :
        /\ config.FlushAt = 2 /\ config.MetricsEnabled
        /\ op[t] = "enqueue" /\ ev[t] = 1 /\ pc[t] = "enq_lock"
        /\ op[u] = "enqueue" /\ ev[u] = 2 /\ pc[u] = "ret" /\ result[u] = Nil
        /\ metrics.retryCount = 1
        /\ queue = <<2>>
        /\ pc[BG] = "bg_select"
        /\ ~done

\* C26: once done is closed the background loop ends, and a Close that
\* waits for the loop returns, whatever producers, explicit flushes and the
\* ticker do meanwhile, as long as every send gets an answer.
C26_CloseTerminates ==
    /\ done ~> (pc[BG] = "bg_stopped")
    /\ \A t \in Callers :
          (pc[t] = "close_wait") ~> (op[t] = "close" /\ pc[t] = "ret")

\* Close has returned the retryable error of its final flush while the
\* explicit Flush of the other caller is still sending
C26_Witness ==
    \E t, u \in Callers :
        /\ op[t] = "close" /\ pc[t] = "ret" /\ IsRetryable(result[t])
        /\ op[u] = "flush" /\ pc[u] = "sending"
        /\ pc[BG] = "bg_stopped"

\* the goroutine is inside sendIngestion
InSend(t) == pc[t] \in {"send_start", "sending"}

\* the goroutine is inside Flush, past the return of sendIngestion
PastSend(t) == pc[t] \in {"sent", "requeue_lock", "fail_record"}

\* C27: a Flush calls sendIngestion at most once, and once when it finds the
\* queue non-empty: the call is made by the critical section that takes the
\* snapshot and by no other step, sendIngestion hands the batch to the
\* transport once and returns with its answer, and after the return the
\* Flush goes on to its result handling and its own return, never to
\* another send.
C27_OneSendPerFlush ==
    [][\A t \in Threads :
         /\ (pc[t] = "flush_lock" /\ pc'[t] # "flush_lock")
               => IF queue = <<>>
                  THEN ~InSend(t)' /\ ~PastSend(t)'
                  ELSE pc'[t] = "send_start" /\ events'[t] = queue
         /\ (~InSend(t) /\ InSend(t)')
               => (pc[t] = "flush_lock" /\ pc'[t] = "send_start")
         /\ (pc[t] = "send_start" /\ pc'[t] # "send_start")
               => pc'[t] \in {"sending", "sent"}
         /\ (pc[t] = "sending" /\ pc'[t] # "sending") => pc'[t] = "sent"
         /\ (PastSend(t) /\ pc'[t] # pc[t]) => ~InSend(t)']_vars

\* FlushAt = 1: the send of event 1 failed with a retryable error and was
\* not repeated; event 1 is sent again by the Flush of the next Add, in one
\* batch with event 2
C27_Witness ==
    \E t \in Callers :
        /\ pc[t] = "sending" /\ op[t] = "enqueue"
        /\ events[t] = <<1, 2>>
        /\ config.FlushAt = 1 /\ config.MetricsEnabled
        /\ metrics.retryCount = 1
        /\ flushStarts = 0

\* the step in which Add appends its event and the queue reaches FlushAt
AcceptReachingFlushAt(t) ==
    /\ pc[t] = "add_lock"
    /\ queue' = Append(queue, ev[t])
    /\ Len(queue') >= config.FlushAt

\* the Flush of goroutine t is at a point from which its next step returns:
\* it found the queue empty, or its send is answered and the result handling
\* (RecordFlush, the requeue, the last RecordFailedEvent) is what is left
FlushCompleting(t) ==
    \/ pc[t] = "flush_lock" /\ queue = <<>>
    \/ pc[t] = "sent" /\ (err[t] = Nil \/ (~IsRetryable(err[t]) /\ ~config.MetricsEnabled))
    \/ pc[t] = "requeue_lock"
    \/ pc[t] = "fail_record" /\ idx[t] = Len(events[t])

\* C28: the Add that brings the queue to FlushAt or more starts a Flush on
\* its own goroutine in the step of the append, and returns only after that
\* Flush has returned, that is after its send (when it took a snapshot) and
\* the handling of the result.
C28_AddWaitsForItsFlush ==
    [][\A t \in Callers :
         op[t] = "enqueue"
           => /\ AcceptReachingFlushAt(t) => pc'[t] = "flush_lock"
              /\ (pc[t] # "add_relock" /\ pc'[t] = "add_relock")
                    => (FlushCompleting(t) /\ events'[t] = <<>>)
              /\ (pc[t] # "ret" /\ pc'[t] = "ret")
                    => \/ pc[t] = "enq_lock"
                       \/ pc[t] = "add_lock" /\ ~AcceptReachingFlushAt(t)
                       \/ pc[t] = "add_relock"]_vars

\* FlushAt = 2: the second Add has sent both events, the flush is recorded,
\* and the Add is about to re-lock and return
C28_Witness ==
    \E t \in Callers :
        /\ op[t] = "enqueue" /\ pc[t] = "add_relock"
        /\ config.FlushAt = 2 /\ config.MetricsEnabled
        /\ metrics.flushCount = 1 /\ metrics.eventsFlushed = 2
        /\ flushStarts = 0
        /\ queue = <<>>

\* the explicit Flush of caller t returns in this step, its send answered
ExplicitFlushReturnsAfterSend(t) ==
    /\ op[t] = "flush"
    /\ PastSend(t)
    /\ pc'[t] = "ret"

\* C29: an explicit Flush whose send was answered returns the error of that
\* send, retryable or not, and nil when sendIngestion returned no error,
\* whatever the item counts of the response are; it returns from nowhere
\* else but the empty queue, then with nil.
C29_ExplicitFlushReturnsSendError ==
    [][\A t \in Callers :
         /\ ExplicitFlushReturnsAfterSend(t) => result'[t] = err[t]
         /\ (op[t] = "flush" /\ pc[t] # "ret" /\ pc'[t] = "ret"
                /\ ~ExplicitFlushReturnsAfterSend(t))
               => (pc[t] = "flush_lock" /\ queue = <<>> /\ result'[t] = Nil)]_vars

\* FlushAt = 2 and one event enqueued: the only send is the one of the
\* explicit Flush; it was answered 207 with an item error, which is counted,
\* and Flush has returned nil
C29_Witness ==
    \E t \in Callers :
        /\ op[t] = "flush" /\ pc[t] = "ret" /\ result[t] = Nil
        /\ config.FlushAt = 2 /\ config.MetricsEnabled
        /\ metrics.eventsEnqueued = 1
        /\ metrics.flushCount = 1 /\ metrics.eventsFailed = 1

\* what C30 says of the step that follows the answer of a send: nothing of
\* the snapshot goes back to the queue or into the failed-event buffer, the
\* Flush goes on to return, and the item counts of the response are added to
\* eventsSucceeded, eventsFailed and eventsFlushed, flushCount grows by one
HandledAsAccepted(t, w) ==
    /\ queue' = queue
    /\ failedEvents' = failedEvents
    /\ ~PastSend(t)' /\ ~InSend(t)'
    /\ metrics' = IF config.MetricsEnabled
                  THEN [metrics EXCEPT !.eventsSucceeded = @ + w.Successes,
                                       !.eventsFailed = @ + w.Errors,
                                       !.eventsFlushed = @ + w.Successes + w.Errors,
                                       !.flushCount = @ + 1]
                  ELSE metrics

\* C30 as claimed: a send that was answered with status 200 or 207 is
\* handled as accepted.  Fails for a 200 or 207 response whose body cannot
\* be read (the snapshot is requeued) or does not parse (its events are
\* recorded as failed events).
C30_AcceptedStatusNeverRequeues ==
    [][\A t \in Threads :
         LET w == hist.answer[t]
         IN  (pc[t] = "sent" /\ pc'[t] # "sent" /\ AcceptedStatus(w))
                => HandledAsAccepted(t, w)]_vars

\* C30 amended: a send that was answered with status 200 or 207 and a body
\* that was read and parses is handled as accepted, whatever the item counts
\* of the response are.
C30_AcceptedResponseNeverRequeues ==
    [][\A t \in Threads :
         LET w == hist.answer[t]
         IN  (pc[t] = "sent" /\ pc'[t] # "sent"
                /\ w.kind = "http" /\ AcceptedStatus(w) /\ w.parses)
                => HandledAsAccepted(t, w)]_vars

\* FlushAt = 2: the batch of both events was answered 207 with one item
\* error; the counts are recorded, nothing is in the queue or in the
\* failed-event buffer, and the Add is about to return
C30_Witness ==
    \E t \in Callers :
        /\ pc[t] = "add_relock"
        /\ config.FlushAt = 2 /\ config.MetricsEnabled
        /\ metrics.flushCount = 1 /\ metrics.eventsFlushed = 2
        /\ metrics.eventsSucceeded = 1 /\ metrics.eventsFailed = 1
        /\ metrics.retryCount = 0
        /\ queue = <<>> /\ FailedLen(failedEvents) = 0

\* the send of goroutine t ran out of time
TimedOut(t) == hist.answer[t].kind = "deadline"

\* C31: a send that exceeds its deadline ends with the retryable network
\* error; its Flush counts one retry (metrics enabled), puts the whole
\* snapshot back in front of the queue, and returns that error, which
\* Client.Flush and Client.Close hand to their callers.
C31_DeadlineIsRetryableNetworkFailure ==
    /\ [](\A t \in Threads :
            (TimedOut(t) /\ pc[t] = "sent")
               => (err[t] = NewNetworkError /\ IsRetryable(err[t])))
    /\ [][\A t \in Threads :
            TimedOut(t)
               => /\ (pc[t] = "sent" /\ pc'[t] # "sent")
                        => /\ pc'[t] = "requeue_lock"
                           /\ events'[t] = events[t]
                           /\ queue' = queue
                           /\ failedEvents' = failedEvents
                           /\ metrics' = [metrics EXCEPT !.retryCount = @ + 1]
                  /\ (pc[t] = "requeue_lock" /\ pc'[t] # "requeue_lock")
                        => /\ queue' = events[t] \o queue
                           /\ metrics' = metrics
                           /\ (op[t] \in {"flush", "close"})
                                 => (pc'[t] = "ret" /\ result'[t] = NewNetworkError)]_vars

\* the final flush of Close has run out of time: the retry is counted, the
\* loop has stopped, and the snapshot is about to go back to the queue
C31_Witness ==
    \E t \in Callers :
        /\ op[t] = "close" /\ pc[t] = "requeue_lock"
        /\ TimedOut(t)
        /\ events[t] # <<>>
        /\ metrics.retryCount = 1
        /\ pc[BG] = "bg_stopped"

\* the send of goroutine t failed with an error that is no LangfuseError:
\* the request could not be built, or the body of a 200 or 207 response did
\* not parse
Unclassified(t) ==
    \/ hist.answer[t].kind = "unbuilt"
    \/ hist.answer[t].kind = "http" /\ AcceptedStatus(hist.answer[t])
          /\ ~hist.answer[t].parses

\* C40: a send that fails with an error that is no LangfuseError is handled
\* as non-retryable: the snapshot does not go back to the queue, the retry
\* counter does not change, every event of the snapshot is recorded as a
\* failed event (metrics enabled), and Flush returns the error.
C40_UnclassifiedErrorIsFatal ==
    /\ [](\A t \in Threads :
            (Unclassified(t) /\ pc[t] = "sent")
               => (err[t].type = "error" /\ ~IsRetryable(err[t])))
    /\ [][\A t \in Threads :
            Unclassified(t)
               => /\ (pc[t] = "sent" /\ pc'[t] # "sent")
                        => /\ pc'[t] = "fail_record" /\ idx'[t] = 1
                           /\ events'[t] = events[t]
                           /\ queue' = queue
                           /\ metrics' = metrics
                  /\ (pc[t] = "fail_record" /\ (pc'[t] # "fail_record" \/ idx'[t] # idx[t]))
                        => /\ queue' = queue
                           /\ metrics' = metrics
                           /\ failedEvents' = RecordFailedEvent(failedEvents,
                                                  events[t][idx[t]], err[t], 0)
                           /\ IF idx[t] < Len(events[t])
                              THEN pc'[t] = "fail_record" /\ idx'[t] = idx[t] + 1
                              ELSE (op[t] \in {"flush", "close"})
                                      => (pc'[t] = "ret" /\ result'[t] = err[t])]_vars

\* the request for a batch of two events could not be built: the first event
\* is recorded as failed, the second is next, nothing is requeued or counted
\* as a retry
C40_Witness ==
    \E t \in Threads :
        /\ pc[t] = "fail_record" /\ idx[t] = 2 /\ Len(events[t]) = 2
        /\ hist.answer[t].kind = "unbuilt"
        /\ FailedLen(failedEvents) = 1
        /\ metrics.retryCount = 0
        /\ queue = <<>>

\* GetSnapshot has returned to caller t
SnapshotReturned(t) == op[t] = "GetSnapshot" /\ pc[t] = "ret"

\* C32: every snapshot that GetSnapshot returns has FailedEventCount <= 1000.
\* Fails: GetSnapshot reads len(m.failedEvents) without taking Metrics.mu,
\* so it can read the length between the append and the truncation of
\* RecordFailedEvent, which is 1001 on a full buffer.
C32_SnapshotFailedCountBounded ==
    \A t \in Callers : SnapshotReturned(t) => result[t].FailedEventCount <= FailedCap

\* C36: every snapshot that GetSnapshot returns has EventsSucceeded <=
\* EventsFlushed and EventsDropped <= EventsEnqueued.  Fails: the counters
\* are loaded one after the other; a RecordFlush that runs between the load
\* of eventsFlushed and the load of eventsSucceeded is in the second and not
\* in the first.
C36_SnapshotCountersConsistent ==
    \A t \in Callers :
        SnapshotReturned(t)
            => /\ result[t].EventsSucceeded <= result[t].EventsFlushed
               /\ result[t].EventsDropped <= result[t].EventsEnqueued

\* the counters RecordFlush writes
FlushCounters ==
    <<metrics.flushCount, metrics.eventsFlushed, metrics.eventsSucceeded,
      metrics.eventsFailed>>

\* goroutine t takes a step of a Flush whose send was accepted
AcceptedFlushStep(t) ==
    /\ \/ pc[t] = "sent" /\ err[t] = Nil
       \/ pc[t] = "record_flush"
    /\ (pc'[t] # pc[t] \/ idx'[t] # idx[t])

\* goroutine t takes a step of a Flush whose send has failed
FailedFlushStep(t) ==
    /\ pc[t] \in {"sent", "requeue_lock", "fail_record", "fail_evict"}
    /\ err[t] # Nil
    /\ (pc'[t] # pc[t] \/ idx'[t] # idx[t])

\* C37: flushCount, eventsFlushed, eventsSucceeded and eventsFailed change
\* only in the steps of a Flush whose send was accepted, never in the handling
\* of a failed send, and whenever no RecordFlush is under way eventsFlushed
\* is the sum of eventsSucceeded and eventsFailed.
C37_FlushCountersOnlyOnAcceptedFlush ==
    /\ []((\A t \in Threads : pc[t] # "record_flush")
            => metrics.eventsFlushed = metrics.eventsSucceeded + metrics.eventsFailed)
    /\ [][/\ (FlushCounters' # FlushCounters) => \E t \in Threads : AcceptedFlushStep(t)
          /\ \A t \in Threads : FailedFlushStep(t) => FlushCounters' = FlushCounters]_vars

\* FlushAt = 1: the flush of event 1 failed with a retryable error and left
\* the counters alone; the flush of both events was answered 207 and is
\* counted, one success and one failure
C37_Witness ==
    /\ config.FlushAt = 1
    /\ metrics.retryCount = 1
    /\ FlushCounters = <<1, 2, 1, 1>>
    /\ \A t \in Threads : pc[t] # "record_flush"

\* the number of places of event e in the sequence q
Occurrences(q, e) == Cardinality({i \in 1..Len(q) : q[i] = e})

\* the number of places that hold event e: positions of the queue,
\* positions of the snapshots of the flushes under way, the delivered events
\* and the dropped events
Places(e) ==
    LET held == [t \in Threads |-> Occurrences(events[t], e)]
    IN  Occurrences(queue, e) + held["c1"] + held["c2"] + held[BG]
          + (IF e \in hist.delivered THEN 1 ELSE 0)
          + (IF e \in hist.dropped THEN 1 ELSE 0)

\* C33: every event that Add has accepted is in exactly one place: once in
\* the queue, once in the snapshot of one flush under way, among the events
\* the transport has accepted, or among the events dropped for good; an
\* event that was not accepted is nowhere.
C33_AcceptedEventsConserved ==
    \A e \in 1..MaxEvents :
        Places(e) = IF e \in hist.accepted THEN 1 ELSE 0

\* event 1 was dropped after a non-retryable failure; event 2 went back to
\* the queue after a retryable failure and is now in the snapshot of a
\* flush whose send is under way
C33_Witness ==
    \E t \in Threads :
        /\ hist.dropped = {1}
        /\ config.MetricsEnabled /\ metrics.retryCount = 1
        /\ pc[t] = "sending" /\ events[t] = <<2>>

\* the critical section of Add: full queue, rejection; otherwise the event
\* goes to the back
AddOutcome(t) ==
    (pc[t] = "add_lock" /\ pc'[t] # "add_lock") =>
        IF Len(queue) >= config.MaxQueueSize
        THEN queue' = queue /\ result'[t] = QueueFullError(config.MaxQueueSize)
        ELSE queue' = Append(queue, ev[t])

HandlingFailure(t) ==
    pc[t] \in {"sent", "requeue_lock", "fail_record"} /\ err[t] # Nil

\* the end of a failed flush: the snapshot is back at the front after a
\* retryable error and gone after any other
FailureOutcome(t) ==
    (HandlingFailure(t) /\ ~HandlingFailure(t)') =>
        queue' = IF IsRetryable(err[t]) THEN events[t] \o queue ELSE queue

\* the queue changes in three ways only
QueueChange(t) ==
    \/ pc[t] = "add_lock" /\ queue' = Append(queue, ev[t])
    \/ pc[t] = "flush_lock" /\ queue' = <<>> /\ events'[t] = queue
    \/ HandlingFailure(t) /\ IsRetryable(err[t]) /\ queue' = events[t] \o queue

\* C38: with MetricsEnabled false no call changes a counter or the failed
\* events: the counters stay zero and GetFailedEvents stays empty; and what
\* Add, Flush and handleFlushError do to the queue (acceptance, rejection,
\* requeue, drop) is decided by the queue, the thresholds and the error
\* alone, with metrics on or off.
C38_MetricsOffChangesNothing ==
    /\ [](~config.MetricsEnabled
            => /\ metrics = ZeroMetrics
               /\ GetFailedEvents = [old |-> 0, recent |-> <<>>])
    /\ [][/\ \A t \in Threads : AddOutcome(t) /\ FailureOutcome(t)
          /\ queue' # queue => \E t \in Threads : QueueChange(t)]_vars

\* metrics are off; one producer was rejected by the full queue, and the
\* other ran an explicit Flush whose send failed
C38_Witness ==
    /\ ~config.MetricsEnabled
    /\ pc = [t \in Threads |-> IF t = BG THEN "bg_select" ELSE "ret"]
    /\ result["c1"] = QueueFullError(config.MaxQueueSize)
    /\ op["c2"] = "flush" /\ result["c2"].type = "LangfuseError"

\* some caller is inside the Close that found the client open: before the
\* stop signal, waiting for the background goroutine, or in the final flush
ShutdownUnderWay ==
    \E u \in Callers :
        /\ op[u] = "close"
        /\ pc[u] \in {"close_signal", "close_wait", "flush_lock", "send_start",
                      "sending", "sent", "requeue_lock", "fail_record"}

\* C39: of the Close calls that race, one closes the stop channel, which is
\* open when it does, and runs the final flush; every other call returns
\* nil, and returns only when the shutdown of the first has completed.
C39_LosingCloseWaitsForShutdown ==
    [][\A t \in Callers :
         /\ (pc[t] = "close_signal") => ~done
         /\ (pc[t] = "close_lock" /\ pc'[t] = "ret")
               => (result'[t] = Nil /\ closed /\ ~ShutdownUnderWay)]_vars

\* the Close that found the client open has returned to its caller
FirstCloseReturned ==
    \E t \in Callers : hist.closer = t /\ op[t] = "close" /\ pc[t] = "ret"

\* C35: when the first Close has returned, no goroutine is about to start a
\* send or inside one: not the background goroutine, not an explicit Flush,
\* not an enqueue.
C35_NoSendAfterClose ==
    FirstCloseReturned => \A u \in Threads : ~InSend(u)

\* C34: no goroutine waits for ever for the client mutex, the queue mutex,
\* Metrics.mu or the end of the background goroutine: every call of
\* enqueue, Flush and Close that has been made returns, and every timer
\* flush comes back to the select of the loop.
C34_NoGoroutineWaitsForever ==
    /\ \A t \in Callers : (pc[t] \notin {"idle", "ret"}) ~> (pc[t] = "ret")
    /\ (pc[BG] \notin {"bg_select", "bg_stopped"}) ~> (pc[BG] \in {"bg_select", "bg_stopped"})

\* c2, inside the flush of its enqueue, holds the client mutex and
\* Metrics.mu; the background goroutine waits for Metrics.mu and c1, in
\* Close, for the client mutex
C34_Witness ==
    /\ pc["c2"] = "fail_evict" /\ op["c2"] = "enqueue" /\ clientMu = "c2"
    /\ pc[BG] = "fail_record"
    /\ pc["c1"] = "close_lock"

====
